---- MODULE Spec2Model ----
(***************************************************************************)
(* A model of opensearch-query-builder: the typed query/request values,    *)
(* their fluent and mutable builders, and the to_json projection to the    *)
(* OpenSearch wire format.                                                  *)
(***************************************************************************)
EXTENDS Integers, Sequences, FiniteSets, TLC

(***************************************************************************)
(* Bounds of the model.                                                     *)
(***************************************************************************)
\* Longest sequence of calls made on one mutable builder.
MaxCalls == 3
\* Most setter calls chained on one freshly constructed value.
MaxSetters == 4

(***************************************************************************)
(* serde_json::Value.  Every value is a record of one shape, so that any   *)
(* two values can be compared: kind says which of the payload fields is    *)
(* meaningful.  An object is a function from its keys (strings) to values: *)
(* serde_json::Map holds one value per key.  A JSON text also writes the   *)
(* keys of an object in some order: keys holds that order where the text   *)
(* is read by a derived Deserialize for which it matters, and is empty for *)
(* a serde_json::Value, whose map keeps no order of writing.               *)
(***************************************************************************)
Value(k, s, n, b, a, o) ==
    [kind |-> k, str |-> s, num |-> n, bool |-> b, arr |-> a, obj |-> o,
     keys |-> <<>>]

Null == Value("null", "", 0, FALSE, <<>>, <<>>)

\* Value::String
String(s) == Value("string", s, 0, FALSE, <<>>, <<>>)

\* Value::Number of an integer (u32 / i32 .into())
Number(n) == Value("number", "", n, FALSE, <<>>, <<>>)

\* Value::Number of a finite float
Float(n) == Value("float", "", n, FALSE, <<>>, <<>>)

\* Value::Bool
Bool(b) == Value("bool", "", 0, b, <<>>, <<>>)

\* Value::Array
Array(a) == Value("array", "", 0, FALSE, a, <<>>)

\* Value::Object
Object(o) == Value("object", "", 0, FALSE, <<>>, o)

\* The JSON text of an object whose keys are written in the given order.
ObjectText(keys, o) == [Object(o) EXCEPT !.keys = keys]

\* Map::new()
Map_new == <<>>

\* Map::insert: the key's value is replaced when the key is already there.
insert(m, k, v) == [x \in (DOMAIN m) \cup {k} |-> IF x = k THEN v ELSE m[x]]

\* The keys of a JSON object.
Keys(j) == DOMAIN j.obj

(***************************************************************************)
(* Option<T>: None is the empty sequence, Some(x) the one-element sequence.*)
(***************************************************************************)
None == <<>>
Some(x) == <<x>>
is_some(o) == Len(o) = 1
unwrap(o) == o[1]

\* Result<T, E>: a record whose ok tells Ok from Err; val holds the Ok value.
Ok(v) == [ok |-> TRUE, val |-> v, err |-> ""]
Err(e) == [ok |-> FALSE, val |-> <<>>, err |-> e]

\* Result::expect: the Ok value; on Err the thread panics, which is the value
\* of kind "panic" carrying the message.
expect(result) ==
    IF result.ok THEN result.val
    ELSE [kind |-> "panic", str |-> result.err, num |-> 0, bool |-> FALSE,
          arr |-> <<>>, obj |-> <<>>, keys |-> <<>>]

(***************************************************************************)
(* f64.  A finite float is its value in tenths; NaN stands for the         *)
(* non-finite floats, which serde_json cannot hold as a number.            *)
(***************************************************************************)
Finite(n) == [finite |-> TRUE, tenths |-> n]
NaN == [finite |-> FALSE, tenths |-> 0]

\* impl From<f64> for Value: a non-finite float becomes Null.
From_f64(x) == IF x.finite THEN Float(x.tenths) ELSE Null

\* slice.iter().map(f).collect::<Vec<Value>>()
MapSeq(f(_), s) == [i \in 1..Len(s) |-> f(s[i])]

(***************************************************************************)
(* Leaf queries: constructors, consuming setters and to_json.              *)
(***************************************************************************)
TermQuery_new(field, value) ==
    [type |-> "Term", field |-> field, value |-> value, boost |-> None]

TermQuery_to_json_WrongForm(self) ==
    Object(insert(Map_new, "term",
        Object(insert(Map_new, self.field,
            Object(insert(insert(Map_new, "value", self.value), "boost",
                          IF is_some(self.boost) THEN From_f64(unwrap(self.boost))
                          ELSE Null))))))

TermQuery_to_json(self) ==
    LET term_obj ==
          IF is_some(self.boost)
          THEN LET field_obj == insert(insert(Map_new, "value", self.value),
                                       "boost", From_f64(unwrap(self.boost)))
               IN  insert(Map_new, self.field, Object(field_obj))
          ELSE insert(Map_new, self.field, self.value)
    IN  Object(insert(Map_new, "term", Object(term_obj)))

TermsQuery_new(field, values) ==
    [type |-> "Terms", field |-> field, values |-> values, boost |-> None]

TermsQuery_to_json_OmitEmpty(self) ==
    LET terms_obj ==
          IF is_some(self.boost)
          THEN LET field_obj == insert(insert(Map_new, "terms", Array(self.values)),
                                       "boost", From_f64(unwrap(self.boost)))
               IN  insert(Map_new, self.field, Object(field_obj))
          ELSE IF self.values = <<>> THEN Map_new
          ELSE insert(Map_new, self.field, Array(self.values))
    IN  Object(insert(Map_new, "terms", Object(terms_obj)))

TermsQuery_to_json(self) ==
    LET terms_obj ==
          IF is_some(self.boost)
          THEN LET field_obj == insert(insert(Map_new, "terms", Array(self.values)),
                                       "boost", From_f64(unwrap(self.boost)))
               IN  insert(Map_new, self.field, Object(field_obj))
          ELSE insert(Map_new, self.field, Array(self.values))
    IN  Object(insert(Map_new, "terms", Object(terms_obj)))

\* if let Some(x) = opt { map.insert(key, f(x)) }
insert_some(m, k, opt, f(_)) == IF is_some(opt) THEN insert(m, k, f(unwrap(opt))) ELSE m

MatchQuery_new(field, query) ==
    [type |-> "Match", field |-> field, query |-> query, operator |-> None,
     fuzziness |-> None, boost |-> None, minimum_should_match |-> None]

MatchQuery_has_options_NoFuzziness(self) ==
    is_some(self.operator) \/ is_some(self.boost) \/ is_some(self.minimum_should_match)

MatchQuery_has_options(self) ==
    \/ is_some(self.operator)
    \/ is_some(self.fuzziness)
    \/ is_some(self.boost)
    \/ is_some(self.minimum_should_match)

MatchQuery_to_json(self) ==
    LET match_obj ==
          IF MatchQuery_has_options(self)
          THEN LET f0 == insert(Map_new, "query", String(self.query))
                   f1 == insert_some(f0, "operator", self.operator, String)
                   f2 == insert_some(f1, "fuzziness", self.fuzziness, String)
                   f3 == insert_some(f2, "boost", self.boost, From_f64)
                   f4 == insert_some(f3, "minimum_should_match",
                                     self.minimum_should_match, String)
               IN  insert(Map_new, self.field, Object(f4))
          ELSE insert(Map_new, self.field, String(self.query))
    IN  Object(insert(Map_new, "match", Object(match_obj)))

MatchPhraseQuery_new(field, query) ==
    [type |-> "MatchPhrase", field |-> field, query |-> query, slop |-> None,
     analyzer |-> None, boost |-> None]

MatchPhraseQuery_has_options(self) ==
    is_some(self.slop) \/ is_some(self.analyzer) \/ is_some(self.boost)

MatchPhraseQuery_to_json(self) ==
    LET match_phrase_obj ==
          IF MatchPhraseQuery_has_options(self)
          THEN LET f0 == insert(Map_new, "query", String(self.query))
                   f1 == insert_some(f0, "analyzer", self.analyzer, String)
                   f2 == insert_some(f1, "slop", self.slop, Number)
                   f3 == insert_some(f2, "boost", self.boost, From_f64)
               IN  insert(Map_new, self.field, Object(f3))
          ELSE insert(Map_new, self.field, String(self.query))
    IN  Object(insert(Map_new, "match_phrase", Object(match_phrase_obj)))

MatchPhrasePrefixQuery_new(field, query) ==
    [type |-> "MatchPhrasePrefix", field |-> field, query |-> query,
     max_expansions |-> None, slop |-> None, boost |-> None]

MatchPhrasePrefixQuery_to_json(self) ==
    LET f0 == insert(Map_new, "query", String(self.query))
        f1 == insert_some(f0, "max_expansions", self.max_expansions, Number)
        f2 == insert_some(f1, "slop", self.slop, Number)
        f3 == insert_some(f2, "boost", self.boost, From_f64)
    IN  Object(insert(Map_new, "match_phrase_prefix",
               Object(insert(Map_new, self.field, Object(f3)))))

RangeQuery_new(field) ==
    [type |-> "Range", field |-> field, gte |-> None, gt |-> None, lte |-> None,
     lt |-> None, boost |-> None]

\* gte.clone(): the bound is a Value already
Clone(v) == v

RangeQuery_to_json_OneLowerBound(self) ==
    Object(insert(Map_new, "range", Object(insert(Map_new, self.field, Object(
        insert_some(
        insert_some(
        insert_some(
        insert_some(
        insert_some(Map_new,
            "gte", self.gte, Clone),
            "gt", IF is_some(self.gte) THEN None ELSE self.gt, Clone),
            "lte", self.lte, Clone),
            "lt", self.lt, Clone),
            "boost", self.boost, From_f64))))))

RangeQuery_to_json(self) ==
    LET f0 == insert_some(Map_new, "gte", self.gte, Clone)
        f1 == insert_some(f0, "gt", self.gt, Clone)
        f2 == insert_some(f1, "lte", self.lte, Clone)
        f3 == insert_some(f2, "lt", self.lt, Clone)
        f4 == insert_some(f3, "boost", self.boost, From_f64)
    IN  Object(insert(Map_new, "range",
               Object(insert(Map_new, self.field, Object(f4)))))

WildcardQuery_new(field, value, case_insensitive, boost) ==
    [type |-> "WildCard", field |-> field, value |-> value,
     case_insensitive |-> case_insensitive, boost |-> boost]

WildcardQuery_to_json(self) ==
    LET f0 == insert(Map_new, "value", String(self.value))
        f1 == insert(f0, "case_insensitive", Bool(self.case_insensitive))
        f2 == insert_some(f1, "boost", self.boost, From_f64)
    IN  Object(insert(Map_new, "wildcard",
               Object(insert(Map_new, self.field, Object(f2)))))

\* impl Display for RegexpQueryFlags
RegexpQueryFlags_fmt(flag) ==
    CASE flag = "All" -> "ALL"
      [] flag = "Anystring" -> "ANYSTRING"
      [] flag = "Complement" -> "COMPLEMENT"
      [] flag = "Empty" -> "EMPTY"
      [] flag = "Intersection" -> "INTERSECTION"
      [] flag = "Interval" -> "INTERVAL"
      [] flag = "None" -> "NONE"

\* Vec<String>::join(sep)
RECURSIVE join(_, _)
join(strs, sep) ==
    IF Len(strs) = 0 THEN ""
    ELSE IF Len(strs) = 1 THEN strs[1]
    ELSE strs[1] \o sep \o join(Tail(strs), sep)

\* str::to_lowercase on ASCII text, a character at a time; text is a sequence
\* of one-character strings here.
to_lowercase(text) ==
    LET lower == [A |-> "a", B |-> "b", C |-> "c", D |-> "d", E |-> "e", F |-> "f",
                  G |-> "g", H |-> "h", I |-> "i", J |-> "j", K |-> "k", L |-> "l",
                  M |-> "m", N |-> "n", O |-> "o", P |-> "p", Q |-> "q", R |-> "r",
                  S |-> "s", T |-> "t", U |-> "u", V |-> "v", W |-> "w", X |-> "x",
                  Y |-> "y", Z |-> "z"]
    IN  [i \in 1..Len(text) |-> IF text[i] \in DOMAIN lower THEN lower[text[i]] ELSE text[i]]

\* WildcardQuery::new of the monolithic revision (lib.rs): two parameters,
\* value: format!("*{}*", value.to_lowercase()), case_insensitive: true.
WildcardQuery_new_lib(field, value) ==
    [type |-> "WildCard", field |-> field,
     value |-> "*" \o join(to_lowercase(value), "") \o "*",
     case_insensitive |-> TRUE]

\* WildcardQuery::to_json of the monolithic revision (lib.rs).
WildcardQuery_to_json_lib(self) ==
    Object(insert(Map_new, "wildcard", Object(insert(Map_new, self.field, Object(
        insert(
        insert(Map_new,
            "value", String(self.value)),
            "case_insensitive", Bool(self.case_insensitive)))))))

RegexpQuery_new(field, value) ==
    [type |-> "Regexp", field |-> field, value |-> value, flags |-> None]

RegexpQuery_to_json_FlagsWhenSet(self) ==
    Object(insert(Map_new, "regexp", Object(insert(Map_new, self.field, Object(
        insert_some(
        insert(Map_new, "value", String(self.value)),
            "flags", self.flags,
            LAMBDA flags : String(join(MapSeq(RegexpQueryFlags_fmt, flags), "|"))))))))

RegexpQuery_to_json(self) ==
    LET f0 == insert(Map_new, "value", String(self.value))
        f1 == IF is_some(self.flags) /\ unwrap(self.flags) # <<>>
              THEN insert(f0, "flags",
                          String(join(MapSeq(RegexpQueryFlags_fmt, unwrap(self.flags)), "|")))
              ELSE f0
    IN  Object(insert(Map_new, "regexp",
               Object(insert(Map_new, self.field, Object(f1)))))

(***************************************************************************)
(* Compound queries: BoolQuery, FunctionScoreQuery and the ScoreFunction   *)
(* values it holds.  to_json recurses through QueryType.                   *)
(***************************************************************************)
RECURSIVE QueryType_to_json(_)
RECURSIVE BoolQuery_to_json(_)
RECURSIVE FunctionScoreQuery_to_json(_)
RECURSIVE ScoreFunction_to_json(_)

\* BoolQuery::new(): Self::default()
BoolQuery_new ==
    [type |-> "Bool", must |-> <<>>, must_not |-> <<>>, should |-> <<>>,
     filter |-> <<>>, minimum_should_match |-> None, boost |-> None]

insert_bucket_AlwaysEmit(m, k, bucket) ==
    insert(m, k, Array([i \in 1..Len(bucket) |-> QueryType_to_json(bucket[i])]))

\* if !bucket.is_empty() { bool_obj.insert(key, Value::Array(...)) }
insert_bucket(m, k, bucket) ==
    IF bucket # <<>>
    THEN insert(m, k, Array([i \in 1..Len(bucket) |-> QueryType_to_json(bucket[i])]))
    ELSE m

BoolQuery_to_json_MinAsPercent(self) ==
    Object(insert(Map_new, "bool", Object(
        insert_some(
        insert_some(
        insert_bucket(
        insert_bucket(
        insert_bucket(
        insert_bucket(Map_new,
            "must", self.must),
            "must_not", self.must_not),
            "should", self.should),
            "filter", self.filter),
            "minimum_should_match", self.minimum_should_match,
                LAMBDA min : String("100%")),
            "boost", self.boost, From_f64))))

\* The inserts are nested in source order, innermost first.
BoolQuery_to_json(self) ==
    Object(insert(Map_new, "bool", Object(
        insert_some(
        insert_some(
        insert_bucket(
        insert_bucket(
        insert_bucket(
        insert_bucket(Map_new,
            "must", self.must),
            "must_not", self.must_not),
            "should", self.should),
            "filter", self.filter),
            "minimum_should_match", self.minimum_should_match, Number),
            "boost", self.boost, From_f64))))

\* BoolQueryBuilder::new(): Self::default()
BoolQueryBuilder_new ==
    [must |-> <<>>, must_not |-> <<>>, should |-> <<>>, filter |-> <<>>,
     minimum_should_match |-> None, boost |-> None]

\* match score_mode { ScoreMode::Multiply => "multiply", ... }
ScoreMode_str(score_mode) ==
    CASE score_mode = "Multiply" -> "multiply"
      [] score_mode = "Sum" -> "sum"
      [] score_mode = "Avg" -> "avg"
      [] score_mode = "First" -> "first"
      [] score_mode = "Max" -> "max"
      [] score_mode = "Min" -> "min"

BoostMode_str_ReplaceAsMultiply(boost_mode) ==
    CASE boost_mode = "Multiply" -> "multiply"
      [] boost_mode = "Replace" -> "multiply"
      [] boost_mode = "Sum" -> "sum"
      [] boost_mode = "Avg" -> "avg"
      [] boost_mode = "Max" -> "max"
      [] boost_mode = "Min" -> "min"

\* match boost_mode { BoostMode::Multiply => "multiply", ... }
BoostMode_str(boost_mode) ==
    CASE boost_mode = "Multiply" -> "multiply"
      [] boost_mode = "Replace" -> "replace"
      [] boost_mode = "Sum" -> "sum"
      [] boost_mode = "Avg" -> "avg"
      [] boost_mode = "Max" -> "max"
      [] boost_mode = "Min" -> "min"

\* FunctionScoreQuery::new(): Self::default()
FunctionScoreQuery_new ==
    [type |-> "FunctionScore", query |-> None, functions |-> <<>>,
     score_mode |-> None, boost_mode |-> None, max_boost |-> None,
     boost |-> None, min_score |-> None]

insert_functions_Reversed(m, functions) ==
    IF functions # <<>>
    THEN insert(m, "functions",
                Array([i \in 1..Len(functions) |->
                          ScoreFunction_to_json(functions[Len(functions) + 1 - i])]))
    ELSE m

\* if !self.functions.is_empty() { insert("functions", ...) }
insert_functions(m, functions) ==
    IF functions # <<>>
    THEN insert(m, "functions",
                Array([i \in 1..Len(functions) |-> ScoreFunction_to_json(functions[i])]))
    ELSE m

\* The inserts are nested in source order, innermost first.
FunctionScoreQuery_to_json(self) ==
    Object(insert(Map_new, "function_score", Object(
        insert_some(
        insert_some(
        insert_some(
        insert_some(
        insert_some(
        insert_functions(
        insert_some(Map_new,
            "query", self.query, QueryType_to_json),
            self.functions),
            "score_mode", self.score_mode, LAMBDA x : String(ScoreMode_str(x))),
            "boost_mode", self.boost_mode, LAMBDA x : String(BoostMode_str(x))),
            "max_boost", self.max_boost, From_f64),
            "boost", self.boost, From_f64),
            "min_score", self.min_score, From_f64))))

DecayFunction_field_obj_ScaleIfOrigin(decay) ==
    Object(insert(Map_new, decay.field, Object(
        insert_some(
        insert_some(
        insert_some(
        insert_some(Map_new,
            "origin", decay.origin, Clone),
            "scale", IF is_some(decay.origin) THEN Some(decay.scale) ELSE None, String),
            "offset", decay.offset, String),
            "decay", decay.decay, From_f64))))

\* The field object of a decay function (the Gauss, Exp and Linear arms).
DecayFunction_field_obj(decay) ==
    LET d0 == insert_some(Map_new, "origin", decay.origin, Clone)
        d1 == insert(d0, "scale", String(decay.scale))
        d2 == insert_some(d1, "offset", decay.offset, String)
        d3 == insert_some(d2, "decay", decay.decay, From_f64)
    IN  Object(insert(Map_new, decay.field, Object(d3)))

\* match &self.function { ... }: the function-type key, none for Weight.
ScoreFunctionType_insert(m, function) ==
    CASE function.type = "Gauss" -> insert(m, "gauss", DecayFunction_field_obj(function))
      [] function.type = "Exp" -> insert(m, "exp", DecayFunction_field_obj(function))
      [] function.type = "Linear" -> insert(m, "linear", DecayFunction_field_obj(function))
      [] function.type = "FieldValueFactor" ->
            LET v0 == insert(Map_new, "field", String(function.field))
                v1 == insert_some(v0, "factor", function.factor, From_f64)
                v2 == insert_some(v1, "modifier", function.modifier, String)
                v3 == insert_some(v2, "missing", function.missing, From_f64)
            IN  insert(m, "field_value_factor", Object(v3))
      [] function.type = "RandomScore" ->
            LET r0 == insert_some(Map_new, "seed", function.seed, Clone)
                r1 == insert_some(r0, "field", function.field, String)
            IN  insert(m, "random_score", Object(r1))
      [] function.type = "ScriptScore" ->
            LET s0 == insert(Map_new, "source", String(function.source))
                s1 == insert_some(s0, "params", function.params, Object)
            IN  insert(m, "script_score", Object(insert(Map_new, "script", Object(s1))))
      [] function.type = "Weight" -> m

ScoreFunction_to_json_WeightFromType(self) ==
    Object(
        insert_some(
        insert_some(
        ScoreFunctionType_insert(Map_new, self.function),
            "filter", self.filter, QueryType_to_json),
            "weight", IF self.function.type = "Weight" THEN Some(self.function.value)
                      ELSE self.weight, From_f64))

ScoreFunction_to_json_PayloadWhenUnset(self) ==
    Object(
        insert_some(
        insert_some(
        ScoreFunctionType_insert(Map_new, self.function),
            "filter", self.filter, QueryType_to_json),
            "weight", IF self.function.type = "Weight" /\ ~is_some(self.weight)
                      THEN Some(self.function.value) ELSE self.weight, From_f64))

ScoreFunction_to_json(self) ==
    Object(
        insert_some(
        insert_some(
        ScoreFunctionType_insert(Map_new, self.function),
            "filter", self.filter, QueryType_to_json),
            "weight", self.weight, From_f64))

QueryType_to_json(self) ==
    CASE self.type = "Bool" -> BoolQuery_to_json(self)
      [] self.type = "FunctionScore" -> FunctionScoreQuery_to_json(self)
      [] self.type = "MatchPhrase" -> MatchPhraseQuery_to_json(self)
      [] self.type = "MatchPhrasePrefix" -> MatchPhrasePrefixQuery_to_json(self)
      [] self.type = "Match" -> MatchQuery_to_json(self)
      [] self.type = "Term" -> TermQuery_to_json(self)
      [] self.type = "Terms" -> TermsQuery_to_json(self)
      [] self.type = "Range" -> RangeQuery_to_json(self)
      [] self.type = "WildCard" -> WildcardQuery_to_json(self)
      [] self.type = "Regexp" -> RegexpQuery_to_json(self)

(***************************************************************************)
(* to_owned: the copy of a query whose strings are all owned.  A string is  *)
(* its characters, whoever owns them.                                        *)
(***************************************************************************)
\* Cow::Owned(s.to_string())
Owned(s) == s

\* opt.as_ref().map(|s| Cow::Owned(s.to_string()))
map_Owned(opt) == IF is_some(opt) THEN Some(Owned(unwrap(opt))) ELSE None

RECURSIVE QueryType_to_owned(_)

BoolQuery_to_owned_ReversesShould(self) ==
    [type |-> "Bool",
     must |-> [i \in 1..Len(self.must) |-> QueryType_to_owned(self.must[i])],
     must_not |-> [i \in 1..Len(self.must_not) |-> QueryType_to_owned(self.must_not[i])],
     should |-> [i \in 1..Len(self.should) |-> QueryType_to_owned(self.should[Len(self.should) + 1 - i])],
     filter |-> [i \in 1..Len(self.filter) |-> QueryType_to_owned(self.filter[i])],
     minimum_should_match |-> self.minimum_should_match,
     boost |-> self.boost]

BoolQuery_to_owned(self) ==
    [type |-> "Bool",
     must |-> [i \in 1..Len(self.must) |-> QueryType_to_owned(self.must[i])],
     must_not |-> [i \in 1..Len(self.must_not) |-> QueryType_to_owned(self.must_not[i])],
     should |-> [i \in 1..Len(self.should) |-> QueryType_to_owned(self.should[i])],
     filter |-> [i \in 1..Len(self.filter) |-> QueryType_to_owned(self.filter[i])],
     minimum_should_match |-> self.minimum_should_match,
     boost |-> self.boost]

\* ScoreFunction has no to_owned of its own: f.to_owned() is its derived Clone.
FunctionScoreQuery_to_owned(self) ==
    [type |-> "FunctionScore",
     query |-> IF is_some(self.query) THEN Some(QueryType_to_owned(unwrap(self.query)))
               ELSE None,
     functions |-> [i \in 1..Len(self.functions) |-> Clone(self.functions[i])],
     score_mode |-> Clone(self.score_mode),
     boost_mode |-> Clone(self.boost_mode),
     max_boost |-> self.max_boost,
     boost |-> self.boost,
     min_score |-> self.min_score]

\* Each arm calls the to_owned of its variant; TermQuery, TermsQuery and
\* RegexpQuery have none of their own, so theirs is the derived Clone.
QueryType_to_owned(self) ==
    CASE self.type = "Bool" -> BoolQuery_to_owned(self)
      [] self.type = "FunctionScore" -> FunctionScoreQuery_to_owned(self)
      [] self.type = "MatchPhrase" ->
            [type |-> "MatchPhrase", field |-> Owned(self.field),
             query |-> Owned(self.query), slop |-> self.slop,
             analyzer |-> map_Owned(self.analyzer), boost |-> self.boost]
      [] self.type = "MatchPhrasePrefix" ->
            [type |-> "MatchPhrasePrefix", field |-> Owned(self.field),
             query |-> Owned(self.query), max_expansions |-> self.max_expansions,
             slop |-> self.slop, boost |-> self.boost]
      [] self.type = "Match" ->
            [type |-> "Match", field |-> Owned(self.field), query |-> Owned(self.query),
             operator |-> map_Owned(self.operator),
             fuzziness |-> map_Owned(self.fuzziness), boost |-> self.boost,
             minimum_should_match |-> map_Owned(self.minimum_should_match)]
      [] self.type = "Range" ->
            [type |-> "Range", field |-> Owned(self.field), gte |-> Clone(self.gte),
             gt |-> Clone(self.gt), lte |-> Clone(self.lte), lt |-> Clone(self.lt),
             boost |-> self.boost]
      [] self.type = "Regexp" -> Clone(self)
      [] self.type = "Term" -> Clone(self)
      [] self.type = "Terms" -> Clone(self)
      [] self.type = "WildCard" ->
            [type |-> "WildCard", field |-> Owned(self.field), value |-> Owned(self.value),
             case_insensitive |-> self.case_insensitive, boost |-> self.boost]

(***************************************************************************)
(* Sorts.                                                                   *)
(***************************************************************************)
\* match self.order { SortOrder::Asc => "asc", SortOrder::Desc => "desc" }
SortOrder_str(order) ==
    CASE order = "Asc" -> "asc"
      [] order = "Desc" -> "desc"

FieldSort_new(field, order) ==
    [type |-> "Field", field |-> field, order |-> order, missing |-> None,
     unmapped_type |-> None]

FieldSort_simplified_OnlyMissing(self) == ~is_some(self.missing)

\* self.missing.~is_some() && self.unmapped_type.~is_some()
FieldSort_simplified(self) == ~is_some(self.missing) /\ ~is_some(self.unmapped_type)

FieldSort_to_json(self) ==
    IF FieldSort_simplified(self)
    THEN Object(insert(Map_new, self.field, String(SortOrder_str(self.order))))
    ELSE LET f0 == insert(Map_new, "order", String(SortOrder_str(self.order)))
             f1 == insert_some(f0, "missing", self.missing, String)
             f2 == insert_some(f1, "unmapped_type", self.unmapped_type, String)
         IN  Object(insert(Map_new, self.field, Object(f2)))

ScoreWithOrderSort_new(order) == [type |-> "ScoreWithOrder", order |-> order]

ScoreWithOrderSort_to_json(self) ==
    Object(insert(Map_new, "_score", String(SortOrder_str(self.order))))

ScriptSortType_str(sort_type) ==
    CASE sort_type = "Number" -> "number"
      [] sort_type = "String" -> "string"
      [] sort_type = "Version" -> "version"

\* #[serde(rename_all = "lowercase")] enum Lang
Lang_str(lang) ==
    CASE lang = "Painless" -> "painless"
      [] lang = "Expression" -> "expression"
      [] lang = "Mustache" -> "mustache"

\* #[serde(rename_all = "lowercase")] enum SortMode
SortMode_str(mode) ==
    CASE mode = "Min" -> "min"
      [] mode = "Max" -> "max"
      [] mode = "Sum" -> "sum"
      [] mode = "Avg" -> "avg"
      [] mode = "Median" -> "median"

\* Script::new: lang is Lang::default()
Script_new(source) == [source |-> source, lang |-> "Painless", params |-> None]

\* serde_json::to_value(&self.script): the derived Serialize of Script
Script_serialize(script) ==
    LET s0 == insert(Map_new, "source", String(script.source))
        s1 == insert(s0, "lang", String(Lang_str(script.lang)))
        s2 == insert_some(s1, "params", script.params, Clone)
    IN  Object(s2)

Script_to_value_FailsWithoutParams(script) ==
    IF is_some(script.params) THEN Ok(Script_serialize(script))
    ELSE Err("Failed to serialize script")

\* serde_json::to_value(&self.script): a string, a unit variant and an
\* optional Value always serialize.
Script_to_value(script) == Ok(Script_serialize(script))

ScriptSort_new(script, sort_type, order) ==
    [type |-> "ScriptSort", sort_type |-> sort_type, script |-> script,
     order |-> order, mode |-> None]

ScriptSort_to_json_ModeAlways(self) ==
    LET s0 == insert(Map_new, "type", String(ScriptSortType_str(self.sort_type)))
        s1 == insert(s0, "script", expect(Script_to_value(self.script)))
        s2 == insert(s1, "order", String(SortOrder_str(self.order)))
        s3 == insert(s2, "mode",
                     IF is_some(self.mode) THEN String(SortMode_str(unwrap(self.mode)))
                     ELSE Null)
    IN  Object(insert(Map_new, "_script", Object(s3)))

ScriptSort_to_json(self) ==
    LET s0 == insert(Map_new, "type", String(ScriptSortType_str(self.sort_type)))
        s1 == insert(s0, "script", expect(Script_to_value(self.script)))
        s2 == insert(s1, "order", String(SortOrder_str(self.order)))
        s3 == insert_some(s2, "mode", self.mode,
                          LAMBDA x : expect(Ok(String(SortMode_str(x)))))
    IN  Object(insert(Map_new, "_script", Object(s3)))

SortType_Score == [type |-> "Score"]

SortType_to_json(self) ==
    CASE self.type = "Field" -> FieldSort_to_json(self)
      [] self.type = "Score" -> String("_score")
      [] self.type = "ScoreWithOrder" -> ScoreWithOrderSort_to_json(self)
      [] self.type = "ScriptSort" -> ScriptSort_to_json(self)

(***************************************************************************)
(* Aggregations, highlight, collapse.  A HashMap is a function from its    *)
(* keys to its values.                                                      *)
(***************************************************************************)
\* HashMap::new()
HashMap_new == <<>>

HashMap_insert_KeepsOld(m, k, v) ==
    [x \in (DOMAIN m) \cup {k} |-> IF x \in DOMAIN m THEN m[x] ELSE v]

\* HashMap::insert: an entry of the same key is replaced.
HashMap_insert(m, k, v) == [x \in (DOMAIN m) \cup {k} |-> IF x = k THEN v ELSE m[x]]

\* HashMap::remove: nothing happens when the key is absent.
HashMap_remove(m, k) == [x \in (DOMAIN m) \ {k} |-> m[x]]

\* HashMap::is_empty
HashMap_is_empty(m) == DOMAIN m = {}

CardinalityAggregation_new(field) == [type |-> "Cardinality", field |-> field]

CardinalityAggregation_to_json(self) ==
    Object(insert(Map_new, "cardinality",
           Object(insert(Map_new, "field", String(self.field)))))

TermsAggregation_new(field) ==
    [type |-> "Terms", field |-> field, size |-> None, sub_aggs |-> HashMap_new]

RECURSIVE AggregationType_to_json(_)

\* if !aggs.is_empty() { for (name, agg) in &aggs { aggs_obj.insert(name, agg.to_json()) }
\*                       map.insert("aggs", Value::Object(aggs_obj)) }
insert_aggs(m, aggs) ==
    IF ~HashMap_is_empty(aggs)
    THEN insert(m, "aggs",
                Object([name \in DOMAIN aggs |-> AggregationType_to_json(aggs[name])]))
    ELSE m

TermsAggregation_to_json_NestedAggs(self) ==
    Object(
        insert(Map_new, "terms", Object(
            insert_aggs(
            insert_some(
            insert(Map_new, "field", String(self.field)),
                "size", self.size, Number),
                self.sub_aggs))))

TermsAggregation_to_json(self) ==
    Object(
        insert_aggs(
        insert(Map_new, "terms", Object(
            insert_some(
            insert(Map_new, "field", String(self.field)),
                "size", self.size, Number))),
            self.sub_aggs))

AggregationType_to_json(self) ==
    CASE self.type = "Terms" -> TermsAggregation_to_json(self)
      [] self.type = "Cardinality" -> CardinalityAggregation_to_json(self)

HighlightField_new ==
    [highlight_type |-> None, number_of_fragments |-> None, pre_tags |-> <<>>,
     post_tags |-> <<>>]

HighlightField_to_json_AlwaysTags(self) ==
    LET h0 == insert_some(Map_new, "type", self.highlight_type, String)
        h1 == insert_some(h0, "number_of_fragments", self.number_of_fragments, Number)
        h2 == insert(h1, "pre_tags", Array(MapSeq(String, self.pre_tags)))
        h3 == insert(h2, "post_tags", Array(MapSeq(String, self.post_tags)))
    IN  Object(h3)

HighlightField_to_json(self) ==
    LET h0 == insert_some(Map_new, "type", self.highlight_type, String)
        h1 == insert_some(h0, "number_of_fragments", self.number_of_fragments, Number)
        h2 == IF self.pre_tags # <<>>
              THEN insert(h1, "pre_tags", Array(MapSeq(String, self.pre_tags)))
              ELSE h1
        h3 == IF self.post_tags # <<>>
              THEN insert(h2, "post_tags", Array(MapSeq(String, self.post_tags)))
              ELSE h2
    IN  Object(h3)

\* Highlight::new(): Self::default()
Highlight_new == [fields |-> HashMap_new, require_field_match |-> None]

Highlight_to_json(self) ==
    LET r0 == IF ~HashMap_is_empty(self.fields)
              THEN insert(Map_new, "fields",
                          Object([name \in DOMAIN self.fields |->
                                     HighlightField_to_json(self.fields[name])]))
              ELSE Map_new
        r1 == insert_some(r0, "require_field_match", self.require_field_match, Bool)
    IN  Object(r1)

Collapse_new(field) == [field |-> field]

Collapse_to_json(self) == Object(insert(Map_new, "field", String(self.field)))

(***************************************************************************)
(* SearchRequest, its to_json and SearchRequestBuilder.                    *)
(***************************************************************************)
\* SearchRequest::new() and SearchRequestBuilder::new(): Self::default()
SearchRequest_new ==
    [query |-> None, size |-> None, from |-> None, sort |-> <<>>,
     aggs |-> HashMap_new, _source |-> <<>>, highlight |-> None,
     track_total_hits |-> None, collapse |-> None]

SearchRequestBuilder_new == SearchRequest_new

\* if !list.is_empty() { map.insert(key, Value::Array(list.iter().map(f).collect())) }
insert_list(m, k, list, f(_)) ==
    IF list # <<>> THEN insert(m, k, Array(MapSeq(f, list))) ELSE m

SearchRequest_to_json_SkipZero(self) ==
    Object(
        insert_some(
        insert_some(
        insert_some(
        insert_list(
        insert_aggs(
        insert_list(
        insert_some(
        insert_some(
        insert_some(Map_new,
            "query", self.query, QueryType_to_json),
            "size", self.size, Number),
            "from", IF self.from = Some(0) THEN None ELSE self.from, Number),
            "sort", self.sort, SortType_to_json),
            self.aggs),
            "_source", self._source, String),
            "highlight", self.highlight, Highlight_to_json),
            "track_total_hits", self.track_total_hits, Bool),
            "collapse", self.collapse, Collapse_to_json))

\* The inserts are nested in source order, innermost first.
SearchRequest_to_json(self) ==
    Object(
        insert_some(
        insert_some(
        insert_some(
        insert_list(
        insert_aggs(
        insert_list(
        insert_some(
        insert_some(
        insert_some(Map_new,
            "query", self.query, QueryType_to_json),
            "size", self.size, Number),
            "from", self.from, Number),
            "sort", self.sort, SortType_to_json),
            self.aggs),
            "_source", self._source, String),
            "highlight", self.highlight, Highlight_to_json),
            "track_total_hits", self.track_total_hits, Bool),
            "collapse", self.collapse, Collapse_to_json))

(***************************************************************************)
(* ScoreFunction constructors.                                              *)
(***************************************************************************)
DecayFunction_new(type, field, scale) ==
    [type |-> type, field |-> field, origin |-> None, scale |-> scale,
     offset |-> None, decay |-> None]

ScoreFunction_gauss(field, scale) ==
    [function |-> DecayFunction_new("Gauss", field, scale), filter |-> None,
     weight |-> None]

ScoreFunction_field_value_factor(field) ==
    [function |-> [type |-> "FieldValueFactor", field |-> field, factor |-> None,
                   modifier |-> None, missing |-> None],
     filter |-> None, weight |-> None]

ScoreFunction_weight_only(weight) ==
    [function |-> [type |-> "Weight", value |-> weight], filter |-> None,
     weight |-> Some(weight)]

(***************************************************************************)
(* The arguments the operations are called with.                            *)
(***************************************************************************)
Fields == <<"status", "title">>
Texts == <<"active", "Rust Search">>
TermValues == <<String("active"), Number(7)>>
TermsValueLists == << <<>>, <<String("b"), String("a")>>, <<Number(2), String("a"), Number(1)>> >>
Floats == <<Finite(15), Finite(0), NaN>>

QuerySamples ==
    << TermQuery_new("status", String("active")),
       [MatchQuery_new("title", "rust") EXCEPT !.boost = Some(Finite(20))],
       [BoolQuery_new EXCEPT
           !.must = <<TermsQuery_new("tag", <<String("a")>>)>>,
           !.filter = <<[TermQuery_new("kind", Number(1)) EXCEPT !.boost = Some(Finite(5))]>>] >>

SortSamples ==
    << FieldSort_new("updated_at", "Desc"),
       [FieldSort_new("document_id", "Asc") EXCEPT !.missing = Some("_last")],
       SortType_Score >>

SortListSamples == << <<SortSamples[1], SortSamples[2]>>, <<>> >>

AggNames == <<"by_category", "users">>

AggSamples ==
    << [TermsAggregation_new("category") EXCEPT
           !.size = Some(10),
           !.sub_aggs = HashMap_insert(HashMap_new, "unique",
                                       CardinalityAggregation_new("user_id"))],
       CardinalityAggregation_new("user_id") >>

SourceFieldSamples == <<"title", "id">>
SourceListSamples == << <<"id", "title">>, <<>> >>

HighlightSamples ==
    << [fields |-> HashMap_insert(HashMap_new, "title",
                      [HighlightField_new EXCEPT !.pre_tags = <<"<em>">>,
                                                 !.post_tags = <<"</em>">>]),
        require_field_match |-> Some(FALSE)] >>

CollapseSamples == << Collapse_new("thread_id") >>

FunctionSamples ==
    << [ScoreFunction_gauss("created_at", "7d") EXCEPT !.weight = Some(Finite(20))],
       [ScoreFunction_field_value_factor("likes") EXCEPT
           !.filter = Some(TermQuery_new("status", String("active")))],
       ScoreFunction_weight_only(Finite(15)) >>

ScoreModes == <<"Multiply", "Sum", "Avg", "First", "Max", "Min">>
BoostModes == <<"Multiply", "Replace", "Sum", "Avg", "Max", "Min">>
SortOrders == <<"Asc", "Desc">>

(***************************************************************************)
(* State.                                                                   *)
(*   target  the value under construction: a mutable builder, or the value *)
(*           a fluent chain has produced so far                            *)
(*   calls   the calls made on target so far, in call order                *)
(*   built   the result of build() on target, if it was called since the   *)
(*           last change of target                                         *)
(*   json    the result of to_json, if it was called since the last change *)
(***************************************************************************)
VARIABLES target, calls, built, json

vars == <<target, calls, built, json>>

\* One call: the method, its string argument (if any) and its other argument
\* (a number, or the index of a sample; 0 if none).
Call(op, name, arg) == [op |-> op, name |-> name, arg |-> arg]

\* A method of a builder (&mut self) or of a FunctionScoreQuery (mut self):
\* target changes, and what was built or serialized before no longer
\* describes it.
Mutate(new_target, call) ==
    /\ Len(calls) < MaxCalls
    /\ target' = new_target
    /\ calls' = Append(calls, call)
    /\ built' = None
    /\ json' = None

\* A consuming setter (mut self) -> Self of a leaf value: the chain goes on
\* with the new value.
Chain(new_target, call) ==
    /\ Len(calls) < MaxSetters
    /\ target' = new_target
    /\ calls' = Append(calls, call)
    /\ json' = None
    /\ UNCHANGED built

(***************************************************************************)
(* SearchRequestBuilder: every method, then build() and to_json().         *)
(***************************************************************************)
InitRequest ==
    /\ target = SearchRequestBuilder_new
    /\ calls = <<>>
    /\ built = None
    /\ json = None

Request_query ==
    \E i \in 1..1 :
        Mutate([target EXCEPT !.query = Some(QuerySamples[i])], Call("query", "", i))

Request_size ==
    \E size \in {10} : Mutate([target EXCEPT !.size = Some(size)], Call("size", "", size))

Request_from ==
    \E from \in {0} : Mutate([target EXCEPT !.from = Some(from)], Call("from", "", from))

Request_add_sort_Prepend ==
    \E i \in 2..3 :
        Mutate([target EXCEPT !.sort = <<SortSamples[i]>> \o @], Call("add_sort", "", i))

Request_add_sort ==
    \E i \in 2..3 :
        Mutate([target EXCEPT !.sort = Append(@, SortSamples[i])], Call("add_sort", "", i))

Request_set_sorts ==
    \E i \in DOMAIN SortListSamples :
        Mutate([target EXCEPT !.sort = SortListSamples[i]], Call("set_sorts", "", i))

Request_clear_sorts_ResetsSize ==
    Mutate([target EXCEPT !.sort = <<>>, !.size = None], Call("clear_sorts", "", 0))

Request_clear_sorts ==
    Mutate([target EXCEPT !.sort = <<>>], Call("clear_sorts", "", 0))

Request_add_agg ==
    \E c \in {<<1, 1>>, <<1, 2>>, <<2, 2>>} :
        Mutate([target EXCEPT !.aggs = HashMap_insert(@, AggNames[c[1]], AggSamples[c[2]])],
               Call("add_agg", AggNames[c[1]], c[2]))

Request_remove_agg_Clears ==
    \E n \in DOMAIN AggNames :
        Mutate([target EXCEPT !.aggs = HashMap_new], Call("remove_agg", AggNames[n], 0))

Request_remove_agg ==
    \E n \in DOMAIN AggNames :
        Mutate([target EXCEPT !.aggs = HashMap_remove(@, AggNames[n])],
               Call("remove_agg", AggNames[n], 0))

Request_clear_aggs ==
    Mutate([target EXCEPT !.aggs = HashMap_new], Call("clear_aggs", "", 0))

Request_add_source_field ==
    \E i \in DOMAIN SourceFieldSamples :
        Mutate([target EXCEPT !._source = Append(@, SourceFieldSamples[i])],
               Call("add_source_field", "", i))

Request_set_source_fields ==
    \E i \in DOMAIN SourceListSamples :
        Mutate([target EXCEPT !._source = SourceListSamples[i]],
               Call("set_source_fields", "", i))

Request_clear_source_fields ==
    Mutate([target EXCEPT !._source = <<>>], Call("clear_source_fields", "", 0))

Request_highlight ==
    \E i \in DOMAIN HighlightSamples :
        Mutate([target EXCEPT !.highlight = Some(HighlightSamples[i])],
               Call("highlight", "", i))

Request_track_total_hits ==
    \E track \in {FALSE} :
        Mutate([target EXCEPT !.track_total_hits = Some(track)],
               Call("track_total_hits", "", IF track THEN 1 ELSE 0))

Request_collapse ==
    \E i \in DOMAIN CollapseSamples :
        Mutate([target EXCEPT !.collapse = Some(CollapseSamples[i])],
               Call("collapse", "", i))

\* build() moves every field of the builder into the SearchRequest; the model
\* builds from a clone, so that the builder can go on.
Request_build ==
    /\ built' = Some([query |-> target.query, size |-> target.size,
                      from |-> target.from, sort |-> target.sort,
                      aggs |-> target.aggs, _source |-> target._source,
                      highlight |-> target.highlight,
                      track_total_hits |-> target.track_total_hits,
                      collapse |-> target.collapse])
    /\ json' = None
    /\ UNCHANGED <<target, calls>>

Request_to_json ==
    /\ is_some(built)
    /\ json' = Some(SearchRequest_to_json(unwrap(built)))
    /\ UNCHANGED <<target, calls, built>>

NextRequest ==
    \/ Request_query
    \/ Request_size
    \/ Request_from
    \/ Request_add_sort
    \/ Request_set_sorts
    \/ Request_clear_sorts
    \/ Request_add_agg
    \/ Request_remove_agg
    \/ Request_clear_aggs
    \/ Request_add_source_field
    \/ Request_set_source_fields
    \/ Request_clear_source_fields
    \/ Request_highlight
    \/ Request_track_total_hits
    \/ Request_collapse
    \/ Request_build
    \/ Request_to_json

SpecRequest == InitRequest /\ [][NextRequest]_vars

(***************************************************************************)
(* Properties of SearchRequest and SearchRequestBuilder.                    *)
(***************************************************************************)
\* The request last built and its serialization.
Req == unwrap(built)
Out == unwrap(json)

\* C1: SearchRequest.to_json emits a key if and only if its field is present
\* (query, size, from, highlight, track_total_hits, collapse: also when the
\* value is 0 or false) or its collection is non-empty (sort, aggs, _source),
\* and emits no other key; a default SearchRequest gives the empty object.
C1_KeysIffPresent ==
    is_some(json) =>
        /\ Out.kind = "object"
        /\ Keys(Out) \subseteq {"query", "size", "from", "sort", "aggs", "_source",
                                "highlight", "track_total_hits", "collapse"}
        /\ ("query" \in Keys(Out)) <=> is_some(Req.query)
        /\ ("size" \in Keys(Out)) <=> is_some(Req.size)
        /\ ("from" \in Keys(Out)) <=> is_some(Req.from)
        /\ ("highlight" \in Keys(Out)) <=> is_some(Req.highlight)
        /\ ("track_total_hits" \in Keys(Out)) <=> is_some(Req.track_total_hits)
        /\ ("collapse" \in Keys(Out)) <=> is_some(Req.collapse)
        /\ ("sort" \in Keys(Out)) <=> (Len(Req.sort) > 0)
        /\ ("aggs" \in Keys(Out)) <=> (DOMAIN Req.aggs # {})
        /\ ("_source" \in Keys(Out)) <=> (Len(Req._source) > 0)
        /\ is_some(Req.size) => Out.obj["size"] = Number(unwrap(Req.size))
        /\ is_some(Req.from) => Out.obj["from"] = Number(unwrap(Req.from))
        /\ is_some(Req.track_total_hits) =>
               Out.obj["track_total_hits"] = Bool(unwrap(Req.track_total_hits))
        /\ (calls = <<>>) => Out = Object(Map_new)

\* A request with from(0) and track_total_hits(false) and nothing else was
\* serialized: both keys are there, with values 0 and false.
C1_Witness ==
    /\ is_some(json)
    /\ Req.from = Some(0)
    /\ Req.track_total_hits = Some(FALSE)
    /\ Keys(Out) = {"from", "track_total_hits"}
    /\ Out.obj["from"] = Number(0)

\* The index of the last call of calls[1..n] whose method is in ops; 0 if none.
RECURSIVE LastCall(_, _)
LastCall(n, ops) ==
    IF n = 0 THEN 0
    ELSE IF calls[n].op \in ops THEN n
    ELSE LastCall(n - 1, ops)

\* The arguments of the calls of method op after call number n, in call order.
ArgsSince(n, op) ==
    LET later == SelectSeq(SubSeq(calls, n + 1, Len(calls)), LAMBDA c : c.op = op)
    IN  [i \in 1..Len(later) |-> later[i].arg]

\* The sort list the calls describe: the argument of the most recent set_sorts
\* (nothing if a clear_sorts came later, or neither was called), then the
\* arguments of the add_sort calls since.
ExpectedSorts ==
    LET n == LastCall(Len(calls), {"set_sorts", "clear_sorts"})
        base == IF n > 0 /\ calls[n].op = "set_sorts"
                THEN SortListSamples[calls[n].arg] ELSE <<>>
        adds == ArgsSince(n, "add_sort")
    IN  base \o [i \in 1..Len(adds) |-> SortSamples[adds[i]]]

ExpectedSourceFields ==
    LET n == LastCall(Len(calls), {"set_source_fields", "clear_source_fields"})
        base == IF n > 0 /\ calls[n].op = "set_source_fields"
                THEN SourceListSamples[calls[n].arg] ELSE <<>>
        adds == ArgsSince(n, "add_source_field")
    IN  base \o [i \in 1..Len(adds) |-> SourceFieldSamples[adds[i]]]

\* C8: after any sequence of add_sort/set_sorts/clear_sorts the "sort" array of
\* the built request is the argument of the most recent set_sorts (none after a
\* later clear_sorts) followed by the add_sort arguments since, in call order,
\* and the key is absent exactly when that list is empty; the same for
\* add_source_field/set_source_fields/clear_source_fields and "_source".
C8_SortsFollowCalls ==
    is_some(json) =>
        /\ ("sort" \in Keys(Out)) <=> (ExpectedSorts # <<>>)
        /\ ("sort" \in Keys(Out)) =>
               Out.obj["sort"] = Array(MapSeq(SortType_to_json, ExpectedSorts))
        /\ ("_source" \in Keys(Out)) <=> (ExpectedSourceFields # <<>>)
        /\ ("_source" \in Keys(Out)) =>
               Out.obj["_source"] = Array(MapSeq(String, ExpectedSourceFields))

\* set_sorts of two sorts, then add_sort, then a build: three sorts come out.
C8_Witness ==
    /\ is_some(json)
    /\ Len(calls) >= 2
    /\ calls[1].op = "set_sorts"
    /\ calls[2].op = "add_sort"
    /\ "sort" \in Keys(Out)
    /\ Len(Out.obj["sort"].arr) = 3

\* The names added by an add_agg that no later remove_agg of that name and no
\* later clear_aggs has taken away.
ExpectedAggNames ==
    { calls[i].name : i \in
        { i \in 1..Len(calls) :
            /\ calls[i].op = "add_agg"
            /\ \A k \in (i + 1)..Len(calls) :
                   /\ calls[k].op # "clear_aggs"
                   /\ ~(calls[k].op = "remove_agg" /\ calls[k].name = calls[i].name) } }

\* C9: after any sequence of add_agg/remove_agg/clear_aggs the "aggs" object of
\* the built request has exactly the names added and not removed or cleared
\* afterwards, and the key is absent when no name remains.
C9_AggNamesFollowCalls ==
    is_some(json) =>
        /\ ("aggs" \in Keys(Out)) <=> (ExpectedAggNames # {})
        /\ ("aggs" \in Keys(Out)) => Keys(Out.obj["aggs"]) = ExpectedAggNames

\* Two names were added and one of them removed: the other one is still there.
C9_Witness ==
    /\ is_some(json)
    /\ Len(calls) = 3
    /\ calls[1].op = "add_agg" /\ calls[2].op = "add_agg"
    /\ calls[1].name # calls[2].name
    /\ calls[3].op = "remove_agg" /\ calls[3].name = calls[1].name
    /\ Keys(Out.obj["aggs"]) = {calls[2].name}

(***************************************************************************)
(* BoolQueryBuilder: every method, then build() and to_json().             *)
(***************************************************************************)
InitBool ==
    /\ target = BoolQueryBuilder_new
    /\ calls = <<>>
    /\ built = None
    /\ json = None

Bool_must ==
    \E i \in DOMAIN QuerySamples :
        Mutate([target EXCEPT !.must = Append(@, QuerySamples[i])], Call("must", "", i))

Bool_must_not_IntoMust ==
    \E i \in DOMAIN QuerySamples :
        Mutate([target EXCEPT !.must = Append(@, QuerySamples[i])],
               Call("must_not", "", i))

Bool_must_not ==
    \E i \in DOMAIN QuerySamples :
        Mutate([target EXCEPT !.must_not = Append(@, QuerySamples[i])],
               Call("must_not", "", i))

Bool_should ==
    \E i \in DOMAIN QuerySamples :
        Mutate([target EXCEPT !.should = Append(@, QuerySamples[i])],
               Call("should", "", i))

Bool_filter ==
    \E i \in DOMAIN QuerySamples :
        Mutate([target EXCEPT !.filter = Append(@, QuerySamples[i])],
               Call("filter", "", i))

Bool_minimum_should_match ==
    \E min \in {1, -1} :
        Mutate([target EXCEPT !.minimum_should_match = Some(min)],
               Call("minimum_should_match", "", min))

Bool_boost ==
    \E i \in DOMAIN Floats :
        Mutate([target EXCEPT !.boost = Some(Floats[i])], Call("boost", "", i))

\* build() moves every field of the builder into the BoolQuery.
Bool_build ==
    /\ built' = Some([type |-> "Bool", must |-> target.must,
                      must_not |-> target.must_not, should |-> target.should,
                      filter |-> target.filter,
                      minimum_should_match |-> target.minimum_should_match,
                      boost |-> target.boost])
    /\ json' = None
    /\ UNCHANGED <<target, calls>>

Bool_to_json ==
    /\ is_some(built)
    /\ json' = Some(BoolQuery_to_json(unwrap(built)))
    /\ UNCHANGED <<target, calls, built>>

NextBool ==
    \/ Bool_must
    \/ Bool_must_not
    \/ Bool_should
    \/ Bool_filter
    \/ Bool_minimum_should_match
    \/ Bool_boost
    \/ Bool_build
    \/ Bool_to_json

SpecBool == InitBool /\ [][NextBool]_vars

(***************************************************************************)
(* Properties of BoolQuery and BoolQueryBuilder.                            *)
(***************************************************************************)
Buckets == {"must", "must_not", "should", "filter"}

\* The object under the "bool" key of the serialized query.
BoolObj == Out.obj["bool"]

\* C2: BoolQuery.to_json emits a bucket key if and only if the bucket is
\* non-empty, never as an empty array; minimum_should_match and boost appear
\* only when set; a BoolQuery with no clauses and no options is built and
\* serializes to {"bool": {}}.
C2_BucketsIffNonEmpty ==
    is_some(json) =>
        /\ Keys(Out) = {"bool"}
        /\ BoolObj.kind = "object"
        /\ Keys(BoolObj) \subseteq Buckets \cup {"minimum_should_match", "boost"}
        /\ \A b \in Buckets :
               /\ (b \in Keys(BoolObj)) <=> (Len(Req[b]) > 0)
               /\ (b \in Keys(BoolObj)) =>
                      /\ BoolObj.obj[b].kind = "array"
                      /\ Len(BoolObj.obj[b].arr) = Len(Req[b])
                      /\ Len(BoolObj.obj[b].arr) > 0
        /\ ("minimum_should_match" \in Keys(BoolObj)) <=> is_some(Req.minimum_should_match)
        /\ ("boost" \in Keys(BoolObj)) <=> is_some(Req.boost)
        /\ (calls = <<>>) => Out = Object(insert(Map_new, "bool", Object(Map_new)))

\* A builder nothing was called on was built and serialized to {"bool": {}}.
C2_Witness ==
    /\ is_some(json)
    /\ calls = <<>>
    /\ Req.must = <<>> /\ Req.must_not = <<>> /\ Req.should = <<>> /\ Req.filter = <<>>
    /\ Keys(BoolObj) = {}

\* The queries passed to the method named bucket, in call order.
ExpectedBucket(bucket) ==
    LET args == ArgsSince(0, bucket)
    IN  [i \in 1..Len(args) |-> QuerySamples[args[i]]]

\* C3: for any interleaving of must/must_not/should/filter calls followed by
\* build(), each bucket's array in to_json holds exactly the serialized queries
\* passed to that bucket's method, in call order (so a call on one bucket
\* changes no other bucket).
C3_BucketsFollowCalls ==
    is_some(json) =>
        \A b \in Buckets :
            /\ (b \in Keys(BoolObj)) <=> (ExpectedBucket(b) # <<>>)
            /\ (b \in Keys(BoolObj)) =>
                   BoolObj.obj[b] = Array(MapSeq(QueryType_to_json, ExpectedBucket(b)))

\* must, must_not and must again, with different queries: must holds the first
\* and the third query in that order, must_not the second.
C3_Witness ==
    /\ is_some(json)
    /\ Len(calls) = 3
    /\ calls[1].op = "must" /\ calls[2].op = "must_not" /\ calls[3].op = "must"
    /\ calls[1].arg = 2 /\ calls[3].arg = 1
    /\ Len(BoolObj.obj["must"].arr) = 2
    /\ BoolObj.obj["must"].arr[1] = QueryType_to_json(QuerySamples[2])
    /\ BoolObj.obj["must"].arr[2] = QueryType_to_json(QuerySamples[1])
    /\ Len(BoolObj.obj["must_not"].arr) = 1

(***************************************************************************)
(* Fluent values: a leaf query or a field sort is constructed, consuming   *)
(* setters are chained on it, and it is serialized.                         *)
(***************************************************************************)
InitFluent ==
    /\ \/ \E f \in DOMAIN Fields, v \in DOMAIN TermValues :
              target = TermQuery_new(Fields[f], TermValues[v])
       \/ \E f \in DOMAIN Fields, v \in DOMAIN TermsValueLists :
              target = TermsQuery_new(Fields[f], TermsValueLists[v])
       \/ \E f \in DOMAIN Fields, q \in DOMAIN Texts :
              target = MatchQuery_new(Fields[f], Texts[q])
       \/ \E f \in DOMAIN Fields, q \in DOMAIN Texts :
              target = MatchPhraseQuery_new(Fields[f], Texts[q])
       \/ \E f \in DOMAIN Fields, o \in DOMAIN SortOrders :
              target = FieldSort_new(Fields[f], SortOrders[o])
    /\ calls = <<>>
    /\ built = None
    /\ json = None

Term_boost ==
    /\ target.type = "Term"
    /\ \E i \in DOMAIN Floats :
           Chain([target EXCEPT !.boost = Some(Floats[i])], Call("boost", "", i))

Terms_boost ==
    /\ target.type = "Terms"
    /\ \E i \in DOMAIN Floats :
           Chain([target EXCEPT !.boost = Some(Floats[i])], Call("boost", "", i))

Match_operator ==
    /\ target.type = "Match"
    /\ \E operator \in {"and", "or"} :
           Chain([target EXCEPT !.operator = Some(operator)],
                 Call("operator", operator, 0))

Match_fuzziness ==
    /\ target.type = "Match"
    /\ \E fuzziness \in {"AUTO"} :
           Chain([target EXCEPT !.fuzziness = Some(fuzziness)],
                 Call("fuzziness", fuzziness, 0))

Match_boost ==
    /\ target.type = "Match"
    /\ \E i \in DOMAIN Floats :
           Chain([target EXCEPT !.boost = Some(Floats[i])], Call("boost", "", i))

Match_minimum_should_match ==
    /\ target.type = "Match"
    /\ \E minimum_should_match \in {"75%"} :
           Chain([target EXCEPT !.minimum_should_match = Some(minimum_should_match)],
                 Call("minimum_should_match", minimum_should_match, 0))

MatchPhrase_slop ==
    /\ target.type = "MatchPhrase"
    /\ \E slop \in {0, 2} :
           Chain([target EXCEPT !.slop = Some(slop)], Call("slop", "", slop))

MatchPhrase_analyzer ==
    /\ target.type = "MatchPhrase"
    /\ \E analyzer \in {"standard"} :
           Chain([target EXCEPT !.analyzer = Some(analyzer)],
                 Call("analyzer", analyzer, 0))

MatchPhrase_boost ==
    /\ target.type = "MatchPhrase"
    /\ \E i \in DOMAIN Floats :
           Chain([target EXCEPT !.boost = Some(Floats[i])], Call("boost", "", i))

Sort_missing ==
    /\ target.type = "Field"
    /\ \E missing \in {"_last", "_first"} :
           Chain([target EXCEPT !.missing = Some(missing)], Call("missing", missing, 0))

Sort_unmapped_type ==
    /\ target.type = "Field"
    /\ \E unmapped_type \in {"date"} :
           Chain([target EXCEPT !.unmapped_type = Some(unmapped_type)],
                 Call("unmapped_type", unmapped_type, 0))

Fluent_to_json ==
    /\ json' = Some(IF target.type = "Field" THEN SortType_to_json(target)
                    ELSE QueryType_to_json(target))
    /\ UNCHANGED <<target, calls, built>>

NextFluent ==
    \/ Term_boost
    \/ Terms_boost
    \/ Match_operator
    \/ Match_fuzziness
    \/ Match_boost
    \/ Match_minimum_should_match
    \/ MatchPhrase_slop
    \/ MatchPhrase_analyzer
    \/ MatchPhrase_boost
    \/ Sort_missing
    \/ Sort_unmapped_type
    \/ Fluent_to_json

SpecFluent == InitFluent /\ [][NextFluent]_vars

(***************************************************************************)
(* Properties of the leaf queries and of FieldSort.                         *)
(***************************************************************************)
\* The methods called on target so far.
Called == { calls[i].op : i \in 1..Len(calls) }

\* The last call of method op (there is one).
Last(op) == calls[LastCall(Len(calls), {op})]

\* What the serialized leaf query holds under its kind and its field.
Inner(kind) == Out.obj[kind].obj[target.field]

\* C4: TermQuery.to_json uses the simple form {"term": {field: value}} exactly
\* when boost is unset and the object form {"term": {field: {"value": value,
\* "boost": b}}} exactly when boost is set; a fresh TermQuery has boost unset.
C4_TermForms ==
    (is_some(json) /\ target.type = "Term") =>
        /\ Keys(Out) = {"term"}
        /\ Keys(Out.obj["term"]) = {target.field}
        /\ (Inner("term") = target.value) <=> ~is_some(target.boost)
        /\ (/\ Inner("term").kind = "object"
            /\ Keys(Inner("term")) = {"value", "boost"}) <=> is_some(target.boost)
        /\ is_some(target.boost) =>
               /\ Inner("term").obj["value"] = target.value
               /\ Inner("term").obj["boost"] = From_f64(unwrap(target.boost))
        /\ is_some(target.boost) <=> ("boost" \in Called)
        /\ ("boost" \in Called) => target.boost = Some(Floats[Last("boost").arg])

\* A TermQuery with a boost was serialized in the object form.
C4_Witness ==
    /\ is_some(json)
    /\ target.type = "Term"
    /\ target.boost = Some(Finite(15))
    /\ Inner("term") = Object(insert(insert(Map_new, "value", target.value),
                                     "boost", Float(15)))

\* C5: MatchQuery and MatchPhraseQuery serialize in the simple form
\* {"<kind>": {field: query}} if and only if none of their optional fields is
\* set; setting any optional field switches to the object form, which holds
\* "query" plus exactly the keys of the optional fields that are set.
C5_MatchForms ==
    /\ (is_some(json) /\ target.type = "Match") =>
           /\ Keys(Out) = {"match"}
           /\ Keys(Out.obj["match"]) = {target.field}
           /\ (Inner("match") = String(target.query)) <=> (Called = {})
           /\ (Called # {}) =>
                  /\ Inner("match").kind = "object"
                  /\ Keys(Inner("match")) = {"query"} \cup Called
                  /\ Inner("match").obj["query"] = String(target.query)
    /\ (is_some(json) /\ target.type = "MatchPhrase") =>
           /\ Keys(Out) = {"match_phrase"}
           /\ Keys(Out.obj["match_phrase"]) = {target.field}
           /\ (Inner("match_phrase") = String(target.query)) <=> (Called = {})
           /\ (Called # {}) =>
                  /\ Inner("match_phrase").kind = "object"
                  /\ Keys(Inner("match_phrase")) = {"query"} \cup Called
                  /\ Inner("match_phrase").obj["query"] = String(target.query)

\* A MatchQuery on which only fuzziness was set was serialized in the object
\* form with the keys query and fuzziness.
C5_Witness ==
    /\ is_some(json)
    /\ target.type = "Match"
    /\ Called = {"fuzziness"}
    /\ Keys(Inner("match")) = {"query", "fuzziness"}

\* C6: TermsQuery.to_json uses the simple form {"terms": {field: [values]}}
\* exactly when boost is unset and the object form
\* {"terms": {field: {"terms": [values], "boost": b}}} exactly when boost is
\* set; the values array is emitted in input order, also when it is empty.
C6_TermsForms ==
    (is_some(json) /\ target.type = "Terms") =>
        /\ Keys(Out) = {"terms"}
        /\ Keys(Out.obj["terms"]) = {target.field}
        /\ (Inner("terms") = Array(target.values)) <=> ~is_some(target.boost)
        /\ (Inner("terms").kind = "object") <=> is_some(target.boost)
        /\ is_some(target.boost) =>
               Inner("terms") =
                   Object(insert(insert(Map_new, "terms", Array(target.values)),
                                 "boost", From_f64(unwrap(target.boost))))
        /\ is_some(target.boost) <=> ("boost" \in Called)

\* A TermsQuery with no values and no boost was serialized to an empty array
\* under its field.
C6_Witness ==
    /\ is_some(json)
    /\ target.type = "Terms"
    /\ target.values = <<>>
    /\ ~is_some(target.boost)
    /\ Inner("terms") = Array(<<>>)

\* C7: FieldSort.to_json uses the simplified form {field: "asc"|"desc"} if and
\* only if both missing and unmapped_type are unset; otherwise the object form
\* {field: {"order": ..., ...}} with "order" plus exactly the keys of the
\* options that are set.
C7_FieldSortForms ==
    (is_some(json) /\ target.type = "Field") =>
        /\ Keys(Out) = {target.field}
        /\ Out.obj[target.field].kind \in {"string", "object"}
        /\ (Out.obj[target.field].kind = "string") <=> (Called = {})
        /\ (Called = {}) =>
               Out.obj[target.field] =
                   String(IF target.order = "Asc" THEN "asc" ELSE "desc")
        /\ (Called # {}) =>
               /\ Keys(Out.obj[target.field]) = {"order"} \cup Called
               /\ Out.obj[target.field].obj["order"] =
                      String(IF target.order = "Asc" THEN "asc" ELSE "desc")
               /\ ("missing" \in Called) =>
                      Out.obj[target.field].obj["missing"] = String(Last("missing").name)
               /\ ("unmapped_type" \in Called) =>
                      Out.obj[target.field].obj["unmapped_type"] =
                          String(Last("unmapped_type").name)

\* A FieldSort on which only unmapped_type was set was serialized in the object
\* form.
C7_Witness ==
    /\ is_some(json)
    /\ target.type = "Field"
    /\ Called = {"unmapped_type"}
    /\ Keys(Out.obj[target.field]) = {"order", "unmapped_type"}

(***************************************************************************)
(* FunctionScoreQuery: the consuming methods chained on                    *)
(* FunctionScoreQuery::new(), and to_json.                                  *)
(***************************************************************************)
InitFunctionScore ==
    /\ target = FunctionScoreQuery_new
    /\ calls = <<>>
    /\ built = None
    /\ json = None

FunctionScore_query ==
    \E i \in 1..1 :
        Mutate([target EXCEPT !.query = Some(QuerySamples[i])], Call("query", "", i))

FunctionScore_function ==
    \E i \in DOMAIN FunctionSamples :
        Mutate([target EXCEPT !.functions = Append(@, FunctionSamples[i])],
               Call("function", "", i))

FunctionScore_score_mode ==
    \E i \in DOMAIN ScoreModes :
        Mutate([target EXCEPT !.score_mode = Some(ScoreModes[i])],
               Call("score_mode", "", i))

FunctionScore_boost_mode ==
    \E i \in DOMAIN BoostModes :
        Mutate([target EXCEPT !.boost_mode = Some(BoostModes[i])],
               Call("boost_mode", "", i))

FunctionScore_max_boost ==
    \E i \in 1..1 :
        Mutate([target EXCEPT !.max_boost = Some(Floats[i])], Call("max_boost", "", i))

FunctionScore_boost ==
    \E i \in DOMAIN Floats :
        Mutate([target EXCEPT !.boost = Some(Floats[i])], Call("boost", "", i))

FunctionScore_min_score ==
    \E i \in 2..2 :
        Mutate([target EXCEPT !.min_score = Some(Floats[i])], Call("min_score", "", i))

FunctionScore_to_json ==
    /\ json' = Some(FunctionScoreQuery_to_json(target))
    /\ UNCHANGED <<target, calls, built>>

NextFunctionScore ==
    \/ FunctionScore_query
    \/ FunctionScore_function
    \/ FunctionScore_score_mode
    \/ FunctionScore_boost_mode
    \/ FunctionScore_max_boost
    \/ FunctionScore_boost
    \/ FunctionScore_min_score
    \/ FunctionScore_to_json

SpecFunctionScore == InitFunctionScore /\ [][NextFunctionScore]_vars

(***************************************************************************)
(* Properties of FunctionScoreQuery.                                        *)
(***************************************************************************)
\* The object under the "function_score" key of the serialized query.
FunctionScoreObj == Out.obj["function_score"]

\* The functions passed to function(), in call order.
ExpectedFunctions ==
    LET args == ArgsSince(0, "function")
    IN  [i \in 1..Len(args) |-> FunctionSamples[args[i]]]

\* C10: FunctionScoreQuery.to_json emits query, score_mode, boost_mode,
\* max_boost, boost and min_score only when set, and "functions" only when the
\* function list is non-empty, holding the functions in the order they were
\* added; with no query and no functions it serializes to
\* {"function_score": {}}.
C10_FunctionScoreKeys ==
    is_some(json) =>
        /\ Keys(Out) = {"function_score"}
        /\ FunctionScoreObj.kind = "object"
        /\ Keys(FunctionScoreObj) =
               { IF op = "function" THEN "functions" ELSE op : op \in Called }
        /\ Keys(FunctionScoreObj) \subseteq
               {"query", "functions", "score_mode", "boost_mode", "max_boost",
                "boost", "min_score"}
        /\ ("functions" \in Keys(FunctionScoreObj)) <=> (Len(target.functions) > 0)
        /\ ("functions" \in Keys(FunctionScoreObj)) =>
               FunctionScoreObj.obj["functions"] =
                   Array(MapSeq(ScoreFunction_to_json, ExpectedFunctions))
        /\ (calls = <<>>) =>
               Out = Object(insert(Map_new, "function_score", Object(Map_new)))

\* Two different functions were added, nothing else: "functions" is the only
\* key and holds the two in the order of the calls.
C10_Witness ==
    /\ is_some(json)
    /\ Len(calls) = 2
    /\ calls[1].op = "function" /\ calls[2].op = "function"
    /\ calls[1].arg = 3 /\ calls[2].arg = 1
    /\ Keys(FunctionScoreObj) = {"functions"}
    /\ FunctionScoreObj.obj["functions"].arr =
           <<ScoreFunction_to_json(FunctionSamples[3]),
             ScoreFunction_to_json(FunctionSamples[1])>>

(***************************************************************************)
(* Serialization of constructed values: a value is built (its fields are   *)
(* public, so every combination of set and unset options can be built) and *)
(* serialized.  calls[1] records what was built.                            *)
(***************************************************************************)
Opt(set, x) == IF set THEN Some(x) ELSE None

DecayTypes == <<"Gauss", "Exp", "Linear">>

FlagLists ==
    << <<>>, <<"Intersection", "Empty">>, <<"All", "All">>, <<"None">>,
       <<"Anystring", "Complement", "Interval">> >>

Patterns == << <<"*", "j", "o", "h", "n", "*">>, <<"J", "o", "h", "n">>, <<"a", "?", "B">> >>

\* Sub-aggregation maps: none, one leaf, a nested terms aggregation with its
\* own sub-aggregation next to a leaf, and a terms aggregation without any.
SubAggSamples ==
    << HashMap_new,
       HashMap_insert(HashMap_new, "unique", CardinalityAggregation_new("user_id")),
       HashMap_insert(
           HashMap_insert(HashMap_new, "by_status",
               [TermsAggregation_new("status") EXCEPT
                   !.size = Some(5),
                   !.sub_aggs = HashMap_insert(HashMap_new, "users",
                                    CardinalityAggregation_new("user_id"))]),
           "unique", CardinalityAggregation_new("user_id")),
       HashMap_insert(HashMap_new, "inner", TermsAggregation_new("kind")) >>

TagLists == << <<>>, <<"<em>">>, <<"<b>", "<em>">> >>
FragmentOptions == <<None, Some(0), Some(3)>>
MatchOptions == <<None, Some(TRUE), Some(FALSE)>>

\* The score functions: every variant, with each optional field set or unset.
InitScoreFunction ==
    \/ \E t \in DOMAIN DecayTypes, origin, offset, decay, filter, weight \in BOOLEAN :
        /\ target = [function |-> [DecayFunction_new(DecayTypes[t], "created_at", "7d")
                                      EXCEPT !.origin = Opt(origin, String("now")),
                                             !.offset = Opt(offset, "3d"),
                                             !.decay = Opt(decay, Finite(5))],
                     filter |-> Opt(filter, QuerySamples[1]),
                     weight |-> Opt(weight, Finite(13))]
        /\ calls = <<Call("new", "ScoreFunction", t)>>
    \/ \E factor, modifier, missing, filter, weight \in BOOLEAN :
        /\ target = [ScoreFunction_field_value_factor("likes")
                        EXCEPT !.function.factor = Opt(factor, Finite(12)),
                               !.function.modifier = Opt(modifier, "log1p"),
                               !.function.missing = Opt(missing, Finite(10)),
                               !.filter = Opt(filter, QuerySamples[1]),
                               !.weight = Opt(weight, Finite(13))]
        /\ calls = <<Call("new", "ScoreFunction", 4)>>
    \/ \E seed, field, filter, weight \in BOOLEAN :
        /\ target = [function |-> [type |-> "RandomScore",
                                   seed |-> Opt(seed, Number(12345)),
                                   field |-> Opt(field, "_seq_no")],
                     filter |-> Opt(filter, QuerySamples[1]),
                     weight |-> Opt(weight, Finite(13))]
        /\ calls = <<Call("new", "ScoreFunction", 5)>>
    \/ \E params, filter, weight \in BOOLEAN :
        /\ target = [function |-> [type |-> "ScriptScore", source |-> "_score * 2",
                                   params |-> Opt(params, insert(Map_new, "a", Number(1)))],
                     filter |-> Opt(filter, QuerySamples[1]),
                     weight |-> Opt(weight, Finite(13))]
        /\ calls = <<Call("new", "ScoreFunction", 6)>>
    \/ \E filter, weight \in BOOLEAN :
        /\ target = [ScoreFunction_weight_only(Finite(20))
                        EXCEPT !.filter = Opt(filter, QuerySamples[1]),
                               !.weight = Opt(weight, Finite(20))]
        /\ calls = <<Call("new", "ScoreFunction", 7)>>

\* Queries nested three levels deep: a function score over a bool query that
\* holds a bool query, with functions whose filters are compound too; and an
\* empty bool query.
DeepQuerySamples ==
    << [FunctionScoreQuery_new EXCEPT
           !.query = Some([BoolQuery_new EXCEPT
               !.must = <<[BoolQuery_new EXCEPT
                              !.should = <<TermQuery_new("status", String("active")),
                                           [RegexpQuery_new("name", "jo.*") EXCEPT
                                               !.flags = Some(<<"Intersection", "Empty">>)]>>]>>,
               !.filter = <<[RangeQuery_new("age") EXCEPT !.gte = Some(Number(18))]>>]),
           !.functions = <<[ScoreFunction_gauss("created_at", "7d") EXCEPT
                               !.filter = Some([BoolQuery_new EXCEPT
                                   !.must_not = <<WildcardQuery_new("title", "a*", FALSE, None)>>])],
                           [function |-> [type |-> "ScriptScore", source |-> "_score * 2",
                                          params |-> Some(insert(Map_new, "a", Number(1)))],
                            filter |-> None, weight |-> Some(NaN)],
                           ScoreFunction_weight_only(Finite(15))>>,
           !.boost_mode = Some("Replace")],
       BoolQuery_new >>

Langs == <<"Painless", "Expression", "Mustache">>
ScriptSortTypes == <<"Number", "String", "Version">>

\* Queries of the kinds the single-kind inputs below leave out, and compound
\* ones.
QueryInputs ==
    << [MatchQuery_new("title", "rust") EXCEPT
           !.operator = Some("and"), !.minimum_should_match = Some("80%")],
       [MatchQuery_new("title", "rust") EXCEPT !.fuzziness = Some("AUTO")],
       [MatchPhraseQuery_new("title", "Rust Search") EXCEPT
           !.slop = Some(2), !.analyzer = Some("standard")],
       MatchPhraseQuery_new("title", "Rust Search"),
       [TermsQuery_new("tag", <<String("b"), String("a")>>) EXCEPT !.boost = Some(Finite(20))],
       QuerySamples[1], QuerySamples[3],
       [BoolQuery_new EXCEPT
           !.should = <<QuerySamples[2], QuerySamples[1], QuerySamples[3]>>,
           !.minimum_should_match = Some(2), !.boost = Some(Finite(15))],
       DeepQuerySamples[1], DeepQuerySamples[2] >>

SortModes == <<"Min", "Max", "Sum", "Avg", "Median">>

InitJson ==
    /\ \/ InitScoreFunction
       \/ \E f \in DOMAIN Fields, i \in {0} \cup DOMAIN FlagLists :
           /\ target = [RegexpQuery_new(Fields[f], "joh?n(ath[oa]n)")
                           EXCEPT !.flags = Opt(i > 0, FlagLists[i])]
           /\ calls = <<Call("new", "Regexp", i)>>
       \/ \E f \in DOMAIN Fields, p \in DOMAIN Patterns, ci, boost \in BOOLEAN :
           /\ target = WildcardQuery_new(Fields[f], join(Patterns[p], ""), ci,
                                         Opt(boost, Finite(20)))
           /\ calls = <<Call("new", "WildCard",
                             [pattern |-> p, case_insensitive |-> ci, boost |-> boost])>>
       \/ \E f \in DOMAIN Fields, p \in DOMAIN Patterns, ci \in BOOLEAN :
           /\ target = [WildcardQuery_new_lib(Fields[f], Patterns[p])
                           EXCEPT !.case_insensitive = ci]
           /\ calls = <<Call("lib_new", "WildCard",
                             [pattern |-> p, case_insensitive |-> ci, boost |-> FALSE])>>
       \/ \E f \in DOMAIN Fields, gte, gt, lte, lt, boost \in BOOLEAN :
           /\ target = [RangeQuery_new(Fields[f])
                           EXCEPT !.gte = Opt(gte, Number(10)),
                                  !.gt = Opt(gt, Number(5)),
                                  !.lte = Opt(lte, String("now")),
                                  !.lt = Opt(lt, Number(100)),
                                  !.boost = Opt(boost, Finite(15))]
           /\ calls = <<Call("new", "Range", 0)>>
       \/ \E f \in DOMAIN Fields, q \in DOMAIN Texts, max_expansions, slop, boost \in BOOLEAN :
           /\ target = [MatchPhrasePrefixQuery_new(Fields[f], Texts[q])
                           EXCEPT !.max_expansions = Opt(max_expansions, 50),
                                  !.slop = Opt(slop, 0),
                                  !.boost = Opt(boost, Finite(15))]
           /\ calls = <<Call("new", "MatchPhrasePrefix", 0)>>
       \/ \E f \in DOMAIN Fields, size \in BOOLEAN, s \in DOMAIN SubAggSamples :
           /\ target = [TermsAggregation_new(Fields[f])
                           EXCEPT !.size = Opt(size, 10), !.sub_aggs = SubAggSamples[s]]
           /\ calls = <<Call("new", "Aggregation", s)>>
       \/ \E f \in DOMAIN Fields :
           /\ target = CardinalityAggregation_new(Fields[f])
           /\ calls = <<Call("new", "Aggregation", 0)>>
       \/ \E type \in BOOLEAN, n \in DOMAIN FragmentOptions,
             pre \in DOMAIN TagLists, post \in DOMAIN TagLists,
             m \in DOMAIN MatchOptions, count \in 0..2 :
           LET field == [HighlightField_new EXCEPT
                            !.highlight_type = Opt(type, "unified"),
                            !.number_of_fragments = FragmentOptions[n],
                            !.pre_tags = TagLists[pre],
                            !.post_tags = TagLists[post]]
               one == HashMap_insert(HashMap_new, "title", field)
               two == HashMap_insert(one, "body", HighlightField_new)
           IN  /\ target = [Highlight_new EXCEPT
                               !.fields = CASE count = 0 -> HashMap_new
                                            [] count = 1 -> one
                                            [] count = 2 -> two,
                               !.require_field_match = MatchOptions[m]]
               /\ calls = <<Call("new", "Highlight", count)>>
       \/ \E q \in {0} \cup DOMAIN DeepQuerySamples, params, mode, highlight, collapse \in BOOLEAN,
             lang \in DOMAIN Langs, type \in DOMAIN ScriptSortTypes,
             order \in DOMAIN SortOrders, aggs \in DOMAIN SubAggSamples :
           /\ target = [SearchRequest_new EXCEPT
                  !.query = Opt(q > 0, DeepQuerySamples[q]),
                  !.sort = <<[ScriptSort_new(
                                  [Script_new("doc['price'].value") EXCEPT
                                      !.lang = Langs[lang],
                                      !.params = Opt(params, Object(insert(Map_new, "k", Number(2))))],
                                  ScriptSortTypes[type], SortOrders[order])
                                 EXCEPT !.mode = Opt(mode, "Avg")],
                             SortType_Score>>,
                  !.aggs = SubAggSamples[aggs],
                  !.highlight = Opt(highlight, HighlightSamples[1]),
                  !.collapse = Opt(collapse, CollapseSamples[1])]
           /\ calls = <<Call("new", "SearchRequest", q)>>
       \/ \E i \in DOMAIN QueryInputs :
           /\ target = QueryInputs[i]
           /\ calls = <<Call("new", "Query", i)>>
       \/ \E sm \in {0} \cup DOMAIN ScoreModes, bm \in {0} \cup DOMAIN BoostModes :
           /\ target = [FunctionScoreQuery_new EXCEPT
                           !.score_mode = Opt(sm > 0, ScoreModes[sm]),
                           !.boost_mode = Opt(bm > 0, BoostModes[bm])]
           /\ calls = <<Call("new", "FunctionScore", [score_mode |-> sm, boost_mode |-> bm])>>
       \/ \E lang \in {0} \cup DOMAIN Langs, type \in DOMAIN ScriptSortTypes,
             order \in DOMAIN SortOrders, params \in BOOLEAN,
             mode \in {0} \cup DOMAIN SortModes :
           /\ target = [ScriptSort_new(
                            [Script_new("doc['price'].value") EXCEPT
                                !.lang = IF lang > 0 THEN Langs[lang] ELSE @,
                                !.params = Opt(params, Object(insert(Map_new, "k", Number(2))))],
                            ScriptSortTypes[type], SortOrders[order])
                           EXCEPT !.mode = Opt(mode > 0, SortModes[mode])]
           /\ calls = <<Call("new", "Sort", [variant |-> "ScriptSort", order |-> order, lang |-> lang])>>
       \/ \E order \in DOMAIN SortOrders :
           /\ target = ScoreWithOrderSort_new(SortOrders[order])
           /\ calls = <<Call("new", "Sort", [variant |-> "ScoreWithOrder", order |-> order, lang |-> 0])>>
       \/ \E f \in DOMAIN Fields, order \in DOMAIN SortOrders :
           /\ target = FieldSort_new(Fields[f], SortOrders[order])
           /\ calls = <<Call("new", "Sort", [variant |-> "Field", order |-> order, lang |-> 0])>>
       \/ /\ target = SortType_Score
          /\ calls = <<Call("new", "Sort", [variant |-> "Score", order |-> 0, lang |-> 0])>>
    /\ built = None
    /\ json = None

Json_ScoreFunction ==
    /\ calls[1].name = "ScoreFunction"
    /\ json = None
    /\ json' = Some(ScoreFunction_to_json(target))
    /\ UNCHANGED <<target, calls, built>>

\* QueryType::to_json on the query variants built above.
\* The names of the inputs that are queries.
QueryFamilies ==
    {"Regexp", "WildCard", "Range", "MatchPhrasePrefix", "Query", "FunctionScore"}

Json_Query ==
    /\ calls[1].name \in QueryFamilies
    /\ calls[1].op = "new"
    /\ json = None
    /\ json' = Some(QueryType_to_json(target))
    /\ UNCHANGED <<target, calls, built>>

\* WildcardQuery::to_json of the monolithic revision.
Json_Wildcard_lib ==
    /\ calls[1].op = "lib_new"
    /\ json = None
    /\ json' = Some(WildcardQuery_to_json_lib(target))
    /\ UNCHANGED <<target, calls, built>>

Json_Aggregation ==
    /\ calls[1].name = "Aggregation"
    /\ json = None
    /\ json' = Some(AggregationType_to_json(target))
    /\ UNCHANGED <<target, calls, built>>

Json_Highlight ==
    /\ calls[1].name = "Highlight"
    /\ json = None
    /\ json' = Some(Highlight_to_json(target))
    /\ UNCHANGED <<target, calls, built>>

Json_Request ==
    /\ calls[1].name = "SearchRequest"
    /\ json = None
    /\ json' = Some(SearchRequest_to_json(target))
    /\ UNCHANGED <<target, calls, built>>

\* q.to_owned(), and to_json of the copy.
Query_to_owned ==
    /\ calls[1].name \in QueryFamilies
    /\ calls[1].op = "new"
    /\ built = None
    /\ built' = Some([value |-> QueryType_to_owned(target),
                      json |-> QueryType_to_json(QueryType_to_owned(target))])
    /\ UNCHANGED <<target, calls, json>>

Json_Sort ==
    /\ calls[1].name = "Sort"
    /\ json = None
    /\ json' = Some(SortType_to_json(target))
    /\ UNCHANGED <<target, calls, built>>

NextJson ==
    \/ Json_ScoreFunction
    \/ Json_Query
    \/ Json_Wildcard_lib
    \/ Json_Aggregation
    \/ Json_Highlight
    \/ Json_Request
    \/ Query_to_owned
    \/ Json_Sort

SpecJson == InitJson /\ [][NextJson]_vars

(***************************************************************************)
(* Properties of ScoreFunction.                                             *)
(***************************************************************************)
Serialized(name) == is_some(json) /\ calls[1].name = name

\* The function-type key of each variant; Weight has none.
TypeKeys(type) ==
    CASE type = "Gauss" -> {"gauss"}
      [] type = "Exp" -> {"exp"}
      [] type = "Linear" -> {"linear"}
      [] type = "FieldValueFactor" -> {"field_value_factor"}
      [] type = "RandomScore" -> {"random_score"}
      [] type = "ScriptScore" -> {"script_score"}
      [] type = "Weight" -> {}

\* C11: ScoreFunction.to_json emits exactly the one function-type key of its
\* variant, and none for Weight; "filter" (the serialized sub-query) and
\* "weight" are emitted if and only if they are set.
C11_ScoreFunctionKeys ==
    Serialized("ScoreFunction") =>
        /\ Out.kind = "object"
        /\ Keys(Out) \ {"filter", "weight"} = TypeKeys(target.function.type)
        /\ ("filter" \in Keys(Out)) <=> is_some(target.filter)
        /\ ("weight" \in Keys(Out)) <=> is_some(target.weight)
        /\ is_some(target.filter) =>
               Out.obj["filter"] = QueryType_to_json(unwrap(target.filter))
        /\ is_some(target.weight) =>
               Out.obj["weight"] = From_f64(unwrap(target.weight))

\* A Weight function built without the weight field, with a filter: the filter
\* is the only key.
C11_Witness ==
    /\ Serialized("ScoreFunction")
    /\ target.function.type = "Weight"
    /\ ~is_some(target.weight)
    /\ Keys(Out) = {"filter"}

\* The object under the decay function's field.
DecayObj == Out.obj[CHOOSE k \in TypeKeys(target.function.type) : TRUE].obj[target.function.field]

\* C12: a decay function serializes to {"<kind>": {field: {...}}} where "scale"
\* is always present and "origin", "offset", "decay" are present exactly when
\* set; gauss, exp and linear differ only in the outer key.
C12_DecayShape ==
    Serialized("ScoreFunction") /\ target.function.type \in {"Gauss", "Exp", "Linear"} =>
        /\ \E k \in TypeKeys(target.function.type) :
               /\ Out.obj[k].kind = "object"
               /\ Keys(Out.obj[k]) = {target.function.field}
        /\ DecayObj.kind = "object"
        /\ Keys(DecayObj) \subseteq {"origin", "scale", "offset", "decay"}
        /\ "scale" \in Keys(DecayObj)
        /\ DecayObj.obj["scale"] = String(target.function.scale)
        /\ ("origin" \in Keys(DecayObj)) <=> is_some(target.function.origin)
        /\ ("offset" \in Keys(DecayObj)) <=> is_some(target.function.offset)
        /\ ("decay" \in Keys(DecayObj)) <=> is_some(target.function.decay)
        /\ is_some(target.function.origin) =>
               DecayObj.obj["origin"] = unwrap(target.function.origin)
        /\ is_some(target.function.offset) =>
               DecayObj.obj["offset"] = String(unwrap(target.function.offset))
        /\ is_some(target.function.decay) =>
               DecayObj.obj["decay"] = From_f64(unwrap(target.function.decay))

\* A linear decay with only the scale: {"linear": {field: {"scale": s}}}.
C12_Witness ==
    /\ Serialized("ScoreFunction")
    /\ target.function.type = "Linear"
    /\ Keys(Out) = {"linear"}
    /\ Keys(DecayObj) = {"scale"}

(***************************************************************************)
(* Properties of RegexpQuery, WildcardQuery, RangeQuery and                *)
(* MatchPhrasePrefixQuery.                                                  *)
(***************************************************************************)
\* The uppercase name of each flag.
FlagNames ==
    [All |-> "ALL", Anystring |-> "ANYSTRING", Complement |-> "COMPLEMENT",
     Empty |-> "EMPTY", Intersection |-> "INTERSECTION", Interval |-> "INTERVAL",
     None |-> "NONE"]

\* C13: RegexpQuery.to_json emits {"regexp": {field: {"value": v}}} and adds
\* "flags" only when the flags list is set and non-empty; its value is the
\* flags' uppercase names joined with "|" in list order, duplicates kept.
C13_RegexpFlags ==
    Serialized("Regexp") =>
        /\ Keys(Out) = {"regexp"}
        /\ Keys(Out.obj["regexp"]) = {target.field}
        /\ Inner("regexp").kind = "object"
        /\ Keys(Inner("regexp")) \subseteq {"value", "flags"}
        /\ Inner("regexp").obj["value"] = String(target.value)
        /\ ("flags" \in Keys(Inner("regexp"))) <=>
               (is_some(target.flags) /\ Len(unwrap(target.flags)) > 0)
        /\ ("flags" \in Keys(Inner("regexp"))) =>
               Inner("regexp").obj["flags"] =
                   String(join([i \in 1..Len(unwrap(target.flags)) |->
                                   FlagNames[unwrap(target.flags)[i]]], "|"))
        /\ (target.flags = Some(<<"Intersection", "Empty">>)) =>
               Inner("regexp").obj["flags"] = String("INTERSECTION|EMPTY")
        /\ (target.flags = Some(<<"All", "All">>)) =>
               Inner("regexp").obj["flags"] = String("ALL|ALL")

\* The flags were set to the empty list: there is no "flags" key.
C13_Witness ==
    /\ Serialized("Regexp")
    /\ target.flags = Some(<<>>)
    /\ Keys(Inner("regexp")) = {"value"}

\* What the WildcardQuery was constructed from.
Given == calls[1].arg

\* C14: WildcardQuery.to_json always emits "case_insensitive" (true or false
\* as given), emits "boost" only when set, and emits "value" exactly as passed
\* to the constructor, neither wrapped in '*' nor changed in case.
C14_WildcardAsPassed ==
    Serialized("WildCard") =>
        /\ Keys(Out) = {"wildcard"}
        /\ Keys(Out.obj["wildcard"]) = {target.field}
        /\ Keys(Inner("wildcard")) \subseteq {"value", "case_insensitive", "boost"}
        /\ "case_insensitive" \in Keys(Inner("wildcard"))
        /\ Inner("wildcard").obj["case_insensitive"] = Bool(Given.case_insensitive)
        /\ ("boost" \in Keys(Inner("wildcard"))) <=> Given.boost
        /\ Inner("wildcard").obj["value"] = String(join(Patterns[Given.pattern], ""))

\* The same, of the revision in query/wildcard.rs alone.
C14_ModularRevision == (calls[1].op = "new") => C14_WildcardAsPassed

\* The keys of the options that are set, among the given option names.
SetOptions(names) == { k \in names : is_some(target[k]) }

\* C15: RangeQuery and MatchPhrasePrefixQuery always serialize in object form:
\* {"range": {field: {...}}} has each of gte, gt, lte, lt, boost exactly when
\* set (the empty object when none is; gte and gt may both be there), and
\* {"match_phrase_prefix": {field: {"query": q, ...}}} always has "query" and
\* has max_expansions, slop, boost exactly when set.
C15_AlwaysObjectForm ==
    /\ Serialized("Range") =>
        /\ Keys(Out) = {"range"}
        /\ Keys(Out.obj["range"]) = {target.field}
        /\ Inner("range").kind = "object"
        /\ Keys(Inner("range")) = SetOptions({"gte", "gt", "lte", "lt", "boost"})
        /\ \A k \in Keys(Inner("range")) \ {"boost"} :
               Inner("range").obj[k] = unwrap(target[k])
        /\ is_some(target.boost) =>
               Inner("range").obj["boost"] = From_f64(unwrap(target.boost))
    /\ Serialized("MatchPhrasePrefix") =>
        /\ Keys(Out) = {"match_phrase_prefix"}
        /\ Keys(Out.obj["match_phrase_prefix"]) = {target.field}
        /\ Inner("match_phrase_prefix").kind = "object"
        /\ Keys(Inner("match_phrase_prefix")) =
               {"query"} \cup SetOptions({"max_expansions", "slop", "boost"})
        /\ Inner("match_phrase_prefix").obj["query"] = String(target.query)
        /\ \A k \in Keys(Inner("match_phrase_prefix")) \cap {"max_expansions", "slop"} :
               Inner("match_phrase_prefix").obj[k] = Number(unwrap(target[k]))

\* A range with both lower bounds and nothing else: both keys are there.
C15_Witness ==
    /\ Serialized("Range")
    /\ Keys(Inner("range")) = {"gte", "gt"}

\* A match_phrase_prefix with no option set is still in object form.
C15_WitnessPrefix ==
    /\ Serialized("MatchPhrasePrefix")
    /\ Keys(Inner("match_phrase_prefix")) = {"query"}

(***************************************************************************)
(* Properties of the aggregations and of Highlight.                         *)
(***************************************************************************)
\* j is the serialized form the claim describes for the aggregation agg, at
\* every nesting depth.
RECURSIVE AggShape(_, _)
AggShape(agg, j) ==
    /\ j.kind = "object"
    /\ IF agg.type = "Cardinality"
       THEN /\ Keys(j) = {"cardinality"}
            /\ j.obj["cardinality"] = Object(insert(Map_new, "field", String(agg.field)))
       ELSE /\ Keys(j) = {"terms"} \cup (IF DOMAIN agg.sub_aggs # {} THEN {"aggs"} ELSE {})
            /\ j.obj["terms"].kind = "object"
            /\ Keys(j.obj["terms"]) =
                   {"field"} \cup (IF is_some(agg.size) THEN {"size"} ELSE {})
            /\ j.obj["terms"].obj["field"] = String(agg.field)
            /\ is_some(agg.size) => j.obj["terms"].obj["size"] = Number(unwrap(agg.size))
            /\ DOMAIN agg.sub_aggs # {} =>
                   /\ j.obj["aggs"].kind = "object"
                   /\ Keys(j.obj["aggs"]) = DOMAIN agg.sub_aggs
                   /\ \A name \in DOMAIN agg.sub_aggs :
                          AggShape(agg.sub_aggs[name], j.obj["aggs"].obj[name])

\* C16: TermsAggregation.to_json emits {"terms": {"field": f}} with "size"
\* inside "terms" only when set, and the sub-aggregations under an "aggs" key
\* beside "terms", never inside it, present only when there are some and
\* holding each one's own to_json, at every depth; CardinalityAggregation gives
\* {"cardinality": {"field": f}}.
C16_AggregationShape ==
    Serialized("Aggregation") => AggShape(target, Out)

\* A terms aggregation whose sub-aggregation is a terms aggregation with a
\* sub-aggregation of its own: "aggs" is beside "terms" at both levels.
C16_Witness ==
    /\ Serialized("Aggregation")
    /\ calls[1].arg = 3
    /\ "aggs" \in Keys(Out)
    /\ "aggs" \notin Keys(Out.obj["terms"])
    /\ Keys(Out.obj["aggs"].obj["by_status"]) = {"terms", "aggs"}
    /\ Keys(Out.obj["aggs"].obj["by_status"].obj["aggs"]) = {"users"}

\* j is the array of the strings of tags, in the same order.
TagArray(tags, j) ==
    /\ j.kind = "array"
    /\ Len(j.arr) = Len(tags)
    /\ \A i \in DOMAIN tags : j.arr[i] = String(tags[i])

\* j is the serialized form the claim describes for the highlight field.
FieldShape(field, j) ==
    /\ j.kind = "object"
    /\ Keys(j) = (IF is_some(field.highlight_type) THEN {"type"} ELSE {})
                 \cup (IF is_some(field.number_of_fragments)
                       THEN {"number_of_fragments"} ELSE {})
                 \cup (IF Len(field.pre_tags) > 0 THEN {"pre_tags"} ELSE {})
                 \cup (IF Len(field.post_tags) > 0 THEN {"post_tags"} ELSE {})
    /\ is_some(field.highlight_type) =>
           j.obj["type"] = String(unwrap(field.highlight_type))
    /\ is_some(field.number_of_fragments) =>
           j.obj["number_of_fragments"] = Number(unwrap(field.number_of_fragments))
    /\ Len(field.pre_tags) > 0 => TagArray(field.pre_tags, j.obj["pre_tags"])
    /\ Len(field.post_tags) > 0 => TagArray(field.post_tags, j.obj["post_tags"])

\* C17: Highlight.to_json emits "fields" only when the field map is non-empty
\* and "require_field_match" only when set; each HighlightField emits "type"
\* and "number_of_fragments" only when set and "pre_tags" / "post_tags" only
\* when the list is non-empty, in the order given; a default HighlightField
\* serializes to the empty object.
C17_HighlightShape ==
    Serialized("Highlight") =>
        /\ Keys(Out) = (IF DOMAIN target.fields # {} THEN {"fields"} ELSE {})
                       \cup (IF is_some(target.require_field_match)
                             THEN {"require_field_match"} ELSE {})
        /\ is_some(target.require_field_match) =>
               Out.obj["require_field_match"] = Bool(unwrap(target.require_field_match))
        /\ DOMAIN target.fields # {} =>
               /\ Keys(Out.obj["fields"]) = DOMAIN target.fields
               /\ \A name \in DOMAIN target.fields :
                      FieldShape(target.fields[name], Out.obj["fields"].obj[name])
        /\ "body" \in DOMAIN target.fields => Keys(Out.obj["fields"].obj["body"]) = {}

\* A highlight with a default field beside a field that has two pre_tags and
\* no post_tags, and require_field_match set to false.
C17_Witness ==
    /\ Serialized("Highlight")
    /\ target.require_field_match = Some(FALSE)
    /\ "fields" \in Keys(Out)
    /\ Keys(Out.obj["fields"]) = {"title", "body"}
    /\ Keys(Out.obj["fields"].obj["body"]) = {}
    /\ Keys(Out.obj["fields"].obj["title"]) = {"number_of_fragments", "pre_tags"}
    /\ Out.obj["fields"].obj["title"].obj["number_of_fragments"] = Number(0)
    /\ Out.obj["fields"].obj["title"].obj["pre_tags"].arr = <<String("<b>"), String("<em>")>>

\* j is a JSON value all the way down: no part of it is the trace of a panic.
RECURSIVE Structured(_)
Structured(j) ==
    CASE j.kind \in {"null", "bool", "number", "float", "string"} -> TRUE
      [] j.kind = "array" -> \A i \in DOMAIN j.arr : Structured(j.arr[i])
      [] j.kind = "object" -> \A k \in DOMAIN j.obj : Structured(j.obj[k])
      [] OTHER -> FALSE

\* C20: to_json is total: for every constructed SearchRequest, QueryType,
\* ScoreFunction, SortType (ScriptSort too), AggregationType, Highlight and
\* Collapse value, at any nesting depth, it returns a structured value and
\* never panics.
C20_ToJsonTotal ==
    is_some(json) => Structured(Out)

\* A request whose query nests three levels, sorted by a script without
\* params, with nested aggregations, a highlight and a collapse.
C20_Witness ==
    /\ Serialized("SearchRequest")
    /\ calls[1].arg = 1
    /\ Keys(Out) = {"query", "sort", "aggs", "highlight", "collapse"}
    /\ Keys(Out.obj["sort"].arr[1].obj["_script"].obj["script"]) = {"source", "lang"}
    /\ "mode" \in Keys(Out.obj["sort"].arr[1].obj["_script"])
    /\ Len(Out.obj["query"].obj["function_score"].obj["functions"].arr) = 3
    /\ Keys(Out.obj["aggs"]) = {"by_status", "unique"}
    /\ Keys(Out.obj["aggs"].obj["by_status"]) = {"terms", "aggs"}

(***************************************************************************)
(* The derived serde Serialize / Deserialize of the crate root (lib.rs).    *)
(* Their results are the Result records defined with Option.               *)
(***************************************************************************)

\* The value under key k of the map m; a missing key reads as null, which is
\* how a missing Option field is deserialized.
get(m, k) == IF k \in DOMAIN m THEN m[k] ELSE Null

\* Whether v deserializes into an Option of a type that takes the given kinds.
OptionOf(v, kinds) == v.kind = "null" \/ v.kind \in kinds
StringKinds == {"string"}
FloatKinds == {"number", "float"}

\* Option<String>, Option<f64> and Option<Value> read from a value that
\* OptionOf accepted: an integer becomes a float.
option_string(v) == IF v.kind = "string" THEN Some(v.str) ELSE None
option_f64(v) ==
    CASE v.kind = "number" -> Some(Finite(10 * v.num))
      [] v.kind = "float" -> Some(Finite(v.num))
      [] OTHER -> None

\* Deserialize for serde_json::Value: the value the text spells; the map of
\* an object keeps no order of writing.
RECURSIVE Value_deserialize(_)
Value_deserialize(v) ==
    CASE v.kind = "array" -> Array([i \in DOMAIN v.arr |-> Value_deserialize(v.arr[i])])
      [] v.kind = "object" ->
            Object([k \in DOMAIN v.obj |-> Value_deserialize(v.obj[k])])
      [] OTHER -> v

option_value(v) == IF v.kind = "null" THEN None ELSE Some(Value_deserialize(v))

\* Iterator::collect::<Result<Vec<_>, _>>(): the first error met, or every
\* value in order.
collect(results) ==
    IF \E i \in DOMAIN results : ~results[i].ok
    THEN results[CHOOSE i \in DOMAIN results :
                     ~results[i].ok /\ \A k \in 1..(i - 1) : results[k].ok]
    ELSE Ok([i \in DOMAIN results |-> results[i].val])

\* #[serde(skip_serializing_if = "Vec::is_empty")]
insert_nonempty(m, k, list) ==
    IF DOMAIN list = {} THEN m ELSE insert(m, k, Array(list))

RECURSIVE QueryType_serialize(_)
RECURSIVE ScoreFunction_serialize(_)
RECURSIVE QueryType_deserialize(_, _)
RECURSIVE ScoreFunction_deserialize(_, _)

\* #[serde(untagged)] enum ScoreFunctionType, serialized into the map of the
\* struct that flattens it: a struct variant contributes its fields, and the
\* float of Weight cannot be flattened.
ScoreFunctionType_serialize(function) ==
    CASE function.type \in {"Gauss", "Exp", "Linear"} ->
            Ok(insert_some(
               insert_some(
               insert(
               insert_some(
               insert(Map_new, "field", String(function.field)),
                   "origin", function.origin, Clone),
                   "scale", String(function.scale)),
                   "offset", function.offset, String),
                   "decay", function.decay, From_f64))
      [] function.type = "FieldValueFactor" ->
            Ok(insert_some(
               insert_some(
               insert_some(
               insert(Map_new, "field", String(function.field)),
                   "factor", function.factor, From_f64),
                   "modifier", function.modifier, String),
                   "missing", function.missing, From_f64))
      [] function.type = "RandomScore" ->
            Ok(insert_some(
               insert_some(Map_new,
                   "seed", function.seed, Clone),
                   "field", function.field, String))
      [] function.type = "ScriptScore" ->
            Ok(insert_some(
               insert(Map_new, "source", String(function.source)),
                   "params", function.params, Object))
      [] function.type = "Weight" ->
            Err("can only flatten structs and maps (got a float)")

\* Option<Box<QueryType>> serialized: nothing to write for None.
option_query_serialize(opt) ==
    IF is_some(opt) THEN QueryType_serialize(unwrap(opt)) ELSE Ok(Null)

\* The Ok value of an optional part that was serialized, as an Option.
written(opt, result) == IF is_some(opt) THEN Some(result.val) ELSE None

\* struct ScoreFunction { #[serde(flatten)] function, filter?, weight? }
ScoreFunction_serialize(self) ==
    LET function == ScoreFunctionType_serialize(self.function)
        filter == option_query_serialize(self.filter)
    IN  IF ~function.ok THEN function
        ELSE IF ~filter.ok THEN filter
        ELSE Ok(Object(
                insert_some(
                insert_some(function.val,
                    "filter", written(self.filter, filter), Clone),
                    "weight", self.weight, From_f64)))

\* struct BoolQuery { must, must_not, should, filter: skipped when empty;
\* minimum_should_match?, boost? }
BoolQuery_serialize(self) ==
    LET must == collect([i \in DOMAIN self.must |-> QueryType_serialize(self.must[i])])
        must_not ==
            collect([i \in DOMAIN self.must_not |-> QueryType_serialize(self.must_not[i])])
        should == collect([i \in DOMAIN self.should |-> QueryType_serialize(self.should[i])])
        filter == collect([i \in DOMAIN self.filter |-> QueryType_serialize(self.filter[i])])
    IN  IF ~must.ok THEN must
        ELSE IF ~must_not.ok THEN must_not
        ELSE IF ~should.ok THEN should
        ELSE IF ~filter.ok THEN filter
        ELSE Ok(Object(
                insert_some(
                insert_some(
                insert_nonempty(
                insert_nonempty(
                insert_nonempty(
                insert_nonempty(Map_new,
                    "must", must.val),
                    "must_not", must_not.val),
                    "should", should.val),
                    "filter", filter.val),
                    "minimum_should_match", self.minimum_should_match, Number),
                    "boost", self.boost, From_f64)))

\* struct FunctionScoreQuery { query?, functions: skipped when empty,
\* score_mode?, boost_mode?, max_boost?, boost?, min_score? }; the modes are
\* #[serde(rename_all = "snake_case")].
FunctionScoreQuery_serialize(self) ==
    LET query == option_query_serialize(self.query)
        functions ==
            collect([i \in DOMAIN self.functions |->
                        ScoreFunction_serialize(self.functions[i])])
    IN  IF ~query.ok THEN query
        ELSE IF ~functions.ok THEN functions
        ELSE Ok(Object(
                insert_some(
                insert_some(
                insert_some(
                insert_some(
                insert_some(
                insert_nonempty(
                insert_some(Map_new,
                    "query", written(self.query, query), Clone),
                    "functions", functions.val),
                    "score_mode", self.score_mode, LAMBDA x : String(ScoreMode_str(x))),
                    "boost_mode", self.boost_mode, LAMBDA x : String(BoostMode_str(x))),
                    "max_boost", self.max_boost, From_f64),
                    "boost", self.boost, From_f64),
                    "min_score", self.min_score, From_f64)))

\* The content of each struct variant of QueryType, as its derived Serialize
\* writes it: every field in declaration order, an Option marked
\* skip_serializing_if left out when None. RegexpQuery.flags is not marked
\* and is written as null.
QueryType_content(self) ==
    CASE self.type = "Term" ->
            Ok(Object(insert_some(
                      insert(insert(Map_new, "field", String(self.field)),
                             "value", self.value),
                      "boost", self.boost, From_f64)))
      [] self.type = "Terms" ->
            Ok(Object(insert_some(
                      insert(insert(Map_new, "field", String(self.field)),
                             "values", Array(self.values)),
                      "boost", self.boost, From_f64)))
      [] self.type = "Match" ->
            Ok(Object(insert_some(
                      insert_some(
                      insert_some(
                      insert_some(
                      insert(insert(Map_new, "field", String(self.field)),
                             "query", String(self.query)),
                          "operator", self.operator, String),
                          "fuzziness", self.fuzziness, String),
                          "boost", self.boost, From_f64),
                          "minimum_should_match", self.minimum_should_match, String)))
      [] self.type = "MatchPhrase" ->
            Ok(Object(insert_some(
                      insert_some(
                      insert_some(
                      insert(insert(Map_new, "field", String(self.field)),
                             "query", String(self.query)),
                          "slop", self.slop, Number),
                          "analyzer", self.analyzer, String),
                          "boost", self.boost, From_f64)))
      [] self.type = "MatchPhrasePrefix" ->
            Ok(Object(insert_some(
                      insert_some(
                      insert_some(
                      insert(insert(Map_new, "field", String(self.field)),
                             "query", String(self.query)),
                          "max_expansions", self.max_expansions, Number),
                          "slop", self.slop, Number),
                          "boost", self.boost, From_f64)))
      [] self.type = "Bool" -> BoolQuery_serialize(self)
      [] self.type = "Range" ->
            Ok(Object(insert_some(
                      insert_some(
                      insert_some(
                      insert_some(
                      insert_some(
                      insert(Map_new, "field", String(self.field)),
                          "gte", self.gte, Clone),
                          "gt", self.gt, Clone),
                          "lte", self.lte, Clone),
                          "lt", self.lt, Clone),
                          "boost", self.boost, From_f64)))
      [] self.type = "WildCard" ->
            Ok(Object(insert(insert(insert(Map_new,
                          "field", String(self.field)),
                          "value", String(self.value)),
                          "case_insensitive", Bool(self.case_insensitive))))
      [] self.type = "Regexp" ->
            Ok(Object(insert(insert(insert(Map_new,
                          "field", String(self.field)),
                          "value", String(self.value)),
                          "flags", IF is_some(self.flags)
                                   THEN Array([i \in DOMAIN unwrap(self.flags) |->
                                       String(RegexpQueryFlags_fmt(unwrap(self.flags)[i]))])
                                   ELSE Null)))
      [] self.type = "FunctionScore" -> FunctionScoreQuery_serialize(self)

\* #[serde(tag = "type", content = "params")] enum QueryType: the variant's
\* name under "type" and then its content under "params"; the unit variant
\* MatchAll has no content.
QueryType_serialize(self) ==
    IF self.type = "MatchAll"
    THEN Ok(ObjectText(<<"type">>, insert(Map_new, "type", String("MatchAll"))))
    ELSE LET content == QueryType_content(self)
         IN  IF ~content.ok THEN content
             ELSE Ok(ObjectText(<<"type", "params">>,
                                insert(insert(Map_new, "type", String(self.type)),
                                       "params", content.val)))

\* Deserializer::deserialize_struct of serde_json: a struct is read from an
\* object, by field name (other keys are ignored), or from an array, by
\* position; the derived visit_seq wants an element for every field that has
\* no #[serde(default)] after it, and serde_json none beyond the last field.
struct_fields(v, names) ==
    CASE v.kind = "object" -> Ok(v.obj)
      [] v.kind = "array" /\ Len(v.arr) = Len(names) ->
            Ok([k \in {names[i] : i \in DOMAIN names} |->
                   v.arr[CHOOSE i \in DOMAIN names : names[i] = k]])
      [] OTHER -> Err("invalid type: expected a struct")

\* The two deserializers that drive a derived Deserialize: the one of
\* serde_json, over the text, and serde's ContentDeserializer, over a value
\* that was buffered before its type was known.
Json == "serde_json::Deserializer"
Content == "serde::ContentDeserializer"

\* deserialize_unit: serde_json takes null; the ContentDeserializer also
\* takes a map with no entries.
is_unit(de, v) ==
    \/ v.kind = "null"
    \/ de = Content /\ v.kind = "object" /\ DOMAIN v.obj = {}

\* deserialize_enum for an enum of unit variants: the variant's name as a
\* string, or an object of that one key holding a unit. The name, if any.
unit_variant(de, v, names) ==
    CASE v.kind = "string" /\ v.str \in names -> Some(v.str)
      [] /\ v.kind = "object"
         /\ Cardinality(DOMAIN v.obj) = 1
         /\ \A k \in DOMAIN v.obj : k \in names /\ is_unit(de, v.obj[k]) ->
            Some(CHOOSE k \in DOMAIN v.obj : TRUE)
      [] OTHER -> None

\* deserialize_identifier for the variants of an enum, listed in declaration
\* order: serde_json takes the name only; the ContentDeserializer also takes
\* the index of the variant, an unsigned integer.
identifier(de, v, names) ==
    CASE v.kind = "string" /\ (\E i \in DOMAIN names : names[i] = v.str) -> Some(v.str)
      [] de = Content /\ v.kind = "number" /\ v.num >= 0 /\ v.num < Len(names) ->
            Some(names[v.num + 1])
      [] OTHER -> None

\* u32 takes a non-negative integer, and no float; i32 any integer.
is_u32(v) == v.kind = "number" /\ v.num >= 0
option_int(v) == IF v.kind = "number" THEN Some(v.num) ELSE None
OptionOf_u32(v) == v.kind = "null" \/ is_u32(v)

\* struct DecayFunction { field, origin?, scale, offset?, decay? } read from
\* a map; keys that are not fields are ignored.
DecayFunction_deserialize(type, m) ==
    IF /\ get(m, "field").kind = "string"
       /\ get(m, "scale").kind = "string"
       /\ OptionOf(get(m, "offset"), StringKinds)
       /\ OptionOf(get(m, "decay"), FloatKinds)
    THEN Ok([type |-> type, field |-> m["field"].str,
             origin |-> option_value(get(m, "origin")),
             scale |-> m["scale"].str,
             offset |-> option_string(get(m, "offset")),
             decay |-> option_f64(get(m, "decay"))])
    ELSE Err("invalid DecayFunction")

\* struct FieldValueFactor { field, factor?, modifier?, missing? }
FieldValueFactor_deserialize(m) ==
    IF /\ get(m, "field").kind = "string"
       /\ OptionOf(get(m, "factor"), FloatKinds)
       /\ OptionOf(get(m, "modifier"), StringKinds)
       /\ OptionOf(get(m, "missing"), FloatKinds)
    THEN Ok([type |-> "FieldValueFactor", field |-> m["field"].str,
             factor |-> option_f64(get(m, "factor")),
             modifier |-> option_string(get(m, "modifier")),
             missing |-> option_f64(get(m, "missing"))])
    ELSE Err("invalid FieldValueFactor")

\* struct RandomScore { seed?, field? }: every field is optional.
RandomScore_deserialize(m) ==
    IF OptionOf(get(m, "field"), StringKinds)
    THEN Ok([type |-> "RandomScore", seed |-> option_value(get(m, "seed")),
             field |-> option_string(get(m, "field"))])
    ELSE Err("invalid RandomScore")

\* struct ScriptScore { source, params? }
ScriptScore_deserialize(m) ==
    IF /\ get(m, "source").kind = "string"
       /\ OptionOf(get(m, "params"), {"object"})
    THEN Ok([type |-> "ScriptScore", source |-> m["source"].str,
             params |-> IF get(m, "params").kind = "object"
                        THEN Some(Value_deserialize(m["params"]).obj) ELSE None])
    ELSE Err("invalid ScriptScore")

\* The untagged enum takes the first variant, in declaration order, that the
\* buffered map deserializes into; Weight(f64) never reads from a map.
ScoreFunctionType_deserialize(m) ==
    CASE DecayFunction_deserialize("Gauss", m).ok -> DecayFunction_deserialize("Gauss", m)
      [] DecayFunction_deserialize("Exp", m).ok -> DecayFunction_deserialize("Exp", m)
      [] DecayFunction_deserialize("Linear", m).ok -> DecayFunction_deserialize("Linear", m)
      [] FieldValueFactor_deserialize(m).ok -> FieldValueFactor_deserialize(m)
      [] RandomScore_deserialize(m).ok -> RandomScore_deserialize(m)
      [] ScriptScore_deserialize(m).ok -> ScriptScore_deserialize(m)
      [] OTHER -> Err("data did not match any variant of untagged enum ScoreFunctionType")

\* Option<Box<QueryType>> read from a value: null (or a missing key) is None.
option_query_deserialize(de, v) ==
    IF v.kind = "null" THEN Ok(None)
    ELSE LET query == QueryType_deserialize(de, v)
         IN  IF query.ok THEN Ok(Some(query.val)) ELSE query

\* ScoreFunction read from a map: filter and weight are taken by name from
\* the deserializer at hand, every other key is collected for the flattened
\* function.
ScoreFunction_deserialize(de, j) ==
    IF j.kind # "object" THEN Err("invalid type: expected struct ScoreFunction")
    ELSE LET filter == option_query_deserialize(de, get(j.obj, "filter"))
             rest == [k \in DOMAIN j.obj \ {"filter", "weight"} |-> j.obj[k]]
             function == ScoreFunctionType_deserialize(rest)
         IN  IF ~filter.ok THEN filter
             ELSE IF ~OptionOf(get(j.obj, "weight"), FloatKinds)
             THEN Err("invalid type: expected f64")
             ELSE IF ~function.ok THEN function
             ELSE Ok([function |-> function.val,
                      filter |-> filter.val,
                      weight |-> option_f64(get(j.obj, "weight"))])

\* struct TermQuery { field, value, boost? }
TermQuery_deserialize(m) ==
    IF /\ get(m, "field").kind = "string"
       /\ "value" \in DOMAIN m
       /\ OptionOf(get(m, "boost"), FloatKinds)
    THEN Ok([type |-> "Term", field |-> m["field"].str,
             value |-> Value_deserialize(m["value"]),
             boost |-> option_f64(get(m, "boost"))])
    ELSE Err("invalid TermQuery")

\* struct TermsQuery { field, values, boost? }
TermsQuery_deserialize(m) ==
    IF /\ get(m, "field").kind = "string"
       /\ get(m, "values").kind = "array"
       /\ OptionOf(get(m, "boost"), FloatKinds)
    THEN Ok([type |-> "Terms", field |-> m["field"].str,
             values |-> Value_deserialize(m["values"]).arr,
             boost |-> option_f64(get(m, "boost"))])
    ELSE Err("invalid TermsQuery")

\* struct MatchQuery { field, query, operator?, fuzziness?, boost?,
\* minimum_should_match? }
MatchQuery_deserialize(m) ==
    IF /\ get(m, "field").kind = "string"
       /\ get(m, "query").kind = "string"
       /\ OptionOf(get(m, "operator"), StringKinds)
       /\ OptionOf(get(m, "fuzziness"), StringKinds)
       /\ OptionOf(get(m, "boost"), FloatKinds)
       /\ OptionOf(get(m, "minimum_should_match"), StringKinds)
    THEN Ok([type |-> "Match", field |-> m["field"].str, query |-> m["query"].str,
             operator |-> option_string(get(m, "operator")),
             fuzziness |-> option_string(get(m, "fuzziness")),
             boost |-> option_f64(get(m, "boost")),
             minimum_should_match |-> option_string(get(m, "minimum_should_match"))])
    ELSE Err("invalid MatchQuery")

\* struct MatchPhraseQuery { field, query, slop?, analyzer?, boost? }
MatchPhraseQuery_deserialize(m) ==
    IF /\ get(m, "field").kind = "string"
       /\ get(m, "query").kind = "string"
       /\ OptionOf_u32(get(m, "slop"))
       /\ OptionOf(get(m, "analyzer"), StringKinds)
       /\ OptionOf(get(m, "boost"), FloatKinds)
    THEN Ok([type |-> "MatchPhrase", field |-> m["field"].str,
             query |-> m["query"].str,
             slop |-> option_int(get(m, "slop")),
             analyzer |-> option_string(get(m, "analyzer")),
             boost |-> option_f64(get(m, "boost"))])
    ELSE Err("invalid MatchPhraseQuery")

\* struct MatchPhrasePrefixQuery { field, query, max_expansions?, slop?, boost? }
MatchPhrasePrefixQuery_deserialize(m) ==
    IF /\ get(m, "field").kind = "string"
       /\ get(m, "query").kind = "string"
       /\ OptionOf_u32(get(m, "max_expansions"))
       /\ OptionOf_u32(get(m, "slop"))
       /\ OptionOf(get(m, "boost"), FloatKinds)
    THEN Ok([type |-> "MatchPhrasePrefix", field |-> m["field"].str,
             query |-> m["query"].str,
             max_expansions |-> option_int(get(m, "max_expansions")),
             slop |-> option_int(get(m, "slop")),
             boost |-> option_f64(get(m, "boost"))])
    ELSE Err("invalid MatchPhrasePrefixQuery")

\* A Vec<QueryType> field marked #[serde(default)]: empty when the key is
\* missing, otherwise an array of queries.
vec_query_deserialize(de, m, k) ==
    IF k \notin DOMAIN m THEN Ok(<<>>)
    ELSE IF m[k].kind # "array" THEN Err("invalid type: expected a sequence")
    ELSE collect([i \in DOMAIN m[k].arr |-> QueryType_deserialize(de, m[k].arr[i])])

\* struct BoolQuery { must, must_not, should, filter, minimum_should_match?,
\* boost? }
BoolQuery_deserialize(de, m) ==
    LET must == vec_query_deserialize(de, m, "must")
        must_not == vec_query_deserialize(de, m, "must_not")
        should == vec_query_deserialize(de, m, "should")
        filter == vec_query_deserialize(de, m, "filter")
    IN  IF ~must.ok THEN must
        ELSE IF ~must_not.ok THEN must_not
        ELSE IF ~should.ok THEN should
        ELSE IF ~filter.ok THEN filter
        ELSE IF /\ OptionOf(get(m, "minimum_should_match"), {"number"})
                /\ OptionOf(get(m, "boost"), FloatKinds)
        THEN Ok([type |-> "Bool", must |-> must.val, must_not |-> must_not.val,
                 should |-> should.val, filter |-> filter.val,
                 minimum_should_match |->
                     option_int(get(m, "minimum_should_match")),
                 boost |-> option_f64(get(m, "boost"))])
        ELSE Err("invalid BoolQuery")

\* struct RangeQuery { field, gte?, gt?, lte?, lt?, boost? }
RangeQuery_deserialize(m) ==
    IF /\ get(m, "field").kind = "string"
       /\ OptionOf(get(m, "boost"), FloatKinds)
    THEN Ok([type |-> "Range", field |-> m["field"].str,
             gte |-> option_value(get(m, "gte")), gt |-> option_value(get(m, "gt")),
             lte |-> option_value(get(m, "lte")), lt |-> option_value(get(m, "lt")),
             boost |-> option_f64(get(m, "boost"))])
    ELSE Err("invalid RangeQuery")

\* struct WildcardQuery { field, value, case_insensitive }
WildcardQuery_deserialize(m) ==
    IF /\ get(m, "field").kind = "string"
       /\ get(m, "value").kind = "string"
       /\ get(m, "case_insensitive").kind = "bool"
    THEN Ok([type |-> "WildCard", field |-> m["field"].str, value |-> m["value"].str,
             case_insensitive |-> m["case_insensitive"].bool])
    ELSE Err("invalid WildcardQuery")

RegexpQueryFlagNames ==
    {"All", "Anystring", "Complement", "Empty", "Intersection", "Interval", "None"}

\* The variant of an accepted token, for an enum whose variants are renamed.
RegexpQueryFlags_named(token) ==
    CHOOSE flag \in RegexpQueryFlagNames : RegexpQueryFlags_fmt(flag) = token
ScoreMode_named(token) ==
    CHOOSE m \in {"Multiply", "Sum", "Avg", "First", "Max", "Min"} : ScoreMode_str(m) = token
BoostMode_named(token) ==
    CHOOSE m \in {"Multiply", "Replace", "Sum", "Avg", "Max", "Min"} : BoostMode_str(m) = token

\* #[serde(rename_all = "UPPERCASE")] enum RegexpQueryFlags, read from a value.
RegexpQueryFlags_deserialize(de, v) ==
    unit_variant(de, v, {RegexpQueryFlags_fmt(flag) : flag \in RegexpQueryFlagNames})

\* struct RegexpQuery { field, value, flags: Option<Vec<RegexpQueryFlags>> }
RegexpQuery_deserialize(de, m) ==
    IF /\ get(m, "field").kind = "string"
       /\ get(m, "value").kind = "string"
       /\ \/ get(m, "flags").kind = "null"
          \/ /\ m["flags"].kind = "array"
             /\ \A i \in DOMAIN m["flags"].arr :
                    is_some(RegexpQueryFlags_deserialize(de, m["flags"].arr[i]))
    THEN Ok([type |-> "Regexp", field |-> m["field"].str, value |-> m["value"].str,
             flags |-> IF get(m, "flags").kind = "null" THEN None
                       ELSE Some([i \in DOMAIN m["flags"].arr |->
                                RegexpQueryFlags_named(
                                    unwrap(RegexpQueryFlags_deserialize(de,
                                               m["flags"].arr[i])))])])
    ELSE Err("invalid RegexpQuery")

\* Option<ScoreMode> and Option<BoostMode>, #[serde(rename_all = "snake_case")]
ScoreMode_deserialize(de, v) ==
    unit_variant(de, v, {"multiply", "sum", "avg", "first", "max", "min"})
BoostMode_deserialize(de, v) ==
    unit_variant(de, v, {"multiply", "replace", "sum", "avg", "max", "min"})

\* struct FunctionScoreQuery { query?, functions (default), score_mode?,
\* boost_mode?, max_boost?, boost?, min_score? }
FunctionScoreQuery_deserialize(de, m) ==
    LET query == option_query_deserialize(de, get(m, "query"))
        functions ==
            IF "functions" \notin DOMAIN m THEN Ok(<<>>)
            ELSE IF m["functions"].kind # "array"
            THEN Err("invalid type: expected a sequence")
            ELSE collect([i \in DOMAIN m["functions"].arr |->
                             ScoreFunction_deserialize(de, m["functions"].arr[i])])
        score_mode == get(m, "score_mode")
        boost_mode == get(m, "boost_mode")
    IN  IF ~query.ok THEN query
        ELSE IF ~functions.ok THEN functions
        ELSE IF /\ score_mode.kind = "null" \/ is_some(ScoreMode_deserialize(de, score_mode))
                /\ boost_mode.kind = "null" \/ is_some(BoostMode_deserialize(de, boost_mode))
                /\ OptionOf(get(m, "max_boost"), FloatKinds)
                /\ OptionOf(get(m, "boost"), FloatKinds)
                /\ OptionOf(get(m, "min_score"), FloatKinds)
        THEN Ok([type |-> "FunctionScore", query |-> query.val,
                 functions |-> functions.val,
                 score_mode |->
                     IF score_mode.kind = "null" THEN None
                     ELSE Some(ScoreMode_named(unwrap(ScoreMode_deserialize(de, score_mode)))),
                 boost_mode |->
                     IF boost_mode.kind = "null" THEN None
                     ELSE Some(BoostMode_named(unwrap(BoostMode_deserialize(de, boost_mode)))),
                 max_boost |-> option_f64(get(m, "max_boost")),
                 boost |-> option_f64(get(m, "boost")),
                 min_score |-> option_f64(get(m, "min_score"))])
        ELSE Err("invalid FunctionScoreQuery")

\* The fields of the struct each variant of QueryType holds, in declaration
\* order.
QueryType_fields(variant) ==
    CASE variant = "Term" -> <<"field", "value", "boost">>
      [] variant = "Terms" -> <<"field", "values", "boost">>
      [] variant = "Match" ->
            <<"field", "query", "operator", "fuzziness", "boost", "minimum_should_match">>
      [] variant = "MatchPhrase" -> <<"field", "query", "slop", "analyzer", "boost">>
      [] variant = "MatchPhrasePrefix" ->
            <<"field", "query", "max_expansions", "slop", "boost">>
      [] variant = "Bool" ->
            <<"must", "must_not", "should", "filter", "minimum_should_match", "boost">>
      [] variant = "Range" -> <<"field", "gte", "gt", "lte", "lt", "boost">>
      [] variant = "WildCard" -> <<"field", "value", "case_insensitive">>
      [] variant = "Regexp" -> <<"field", "value", "flags">>
      [] variant = "FunctionScore" ->
            <<"query", "functions", "score_mode", "boost_mode", "max_boost", "boost",
              "min_score">>

\* The variants of QueryType in declaration order.
QueryType_variant_names ==
    <<"Term", "Terms", "Match", "MatchPhrase", "MatchPhrasePrefix", "Bool", "Range",
      "MatchAll", "WildCard", "Regexp", "FunctionScore">>

QueryType_variants == {QueryType_variant_names[i] : i \in DOMAIN QueryType_variant_names}

\* The content of a struct variant, read from the fields of its struct.
QueryType_from_fields(de, variant, m) ==
    CASE variant = "Term" -> TermQuery_deserialize(m)
      [] variant = "Terms" -> TermsQuery_deserialize(m)
      [] variant = "Match" -> MatchQuery_deserialize(m)
      [] variant = "MatchPhrase" -> MatchPhraseQuery_deserialize(m)
      [] variant = "MatchPhrasePrefix" -> MatchPhrasePrefixQuery_deserialize(m)
      [] variant = "Bool" -> BoolQuery_deserialize(de, m)
      [] variant = "Range" -> RangeQuery_deserialize(m)
      [] variant = "WildCard" -> WildcardQuery_deserialize(m)
      [] variant = "Regexp" -> RegexpQuery_deserialize(de, m)
      [] variant = "FunctionScore" -> FunctionScoreQuery_deserialize(de, m)

\* Whether the text of the object j writes "params" before "type": the
\* derived visit_map then buffers the content until it has read the tag.
content_first(j) ==
    \E i, k \in DOMAIN j.keys : i < k /\ j.keys[i] = "params" /\ j.keys[k] = "type"

\* The variant named by j. In an object the value of "type" is read as an
\* enum of unit variants; in an array [type, params] the first element is
\* read as an identifier.
QueryType_tag(de, j) ==
    CASE j.kind = "object" -> unit_variant(de, get(j.obj, "type"), QueryType_variants)
      [] j.kind = "array" /\ Len(j.arr) = 2 ->
            identifier(de, j.arr[1], QueryType_variant_names)
      [] OTHER -> None

\* The content written for the variant; null when an object has none.
QueryType_params(j) ==
    IF j.kind = "object" THEN get(j.obj, "params") ELSE j.arr[2]

\* The deserializer the content is read with: the one at hand, or the
\* ContentDeserializer when the content was buffered.
QueryType_params_de(de, j) ==
    IF j.kind = "object" /\ content_first(j) THEN Content ELSE de

\* #[serde(tag = "type", content = "params")] enum QueryType, read from an
\* object {"type": .., "params": ..}, whose other keys are ignored, or from
\* an array [type, params]. MatchAll takes no content, or null; every other
\* variant needs its struct as content.
QueryType_deserialize(de, j) ==
    LET tag == QueryType_tag(de, j)
    IN  IF ~is_some(tag)
        THEN Err("invalid type, invalid length, missing field type or unknown variant")
        ELSE IF unwrap(tag) = "MatchAll"
        THEN IF QueryType_params(j).kind = "null" THEN Ok([type |-> "MatchAll"])
             ELSE Err("invalid type: expected unit variant QueryType::MatchAll")
        ELSE LET m == struct_fields(QueryType_params(j), QueryType_fields(unwrap(tag)))
             IN  IF ~m.ok THEN Err("invalid params")
                 ELSE QueryType_from_fields(QueryType_params_de(de, j), unwrap(tag), m.val)

\* JSON values that are the encoding of no ScoreFunction: a decay function
\* without its field, a key of the query DSL instead of a field, a script
\* source that is a number, a field that is a number, a weight that is a
\* string, an array, a filter of an unknown variant, and a field value factor
\* whose factor is a string.
MalformedInputs ==
    << Object(insert(Map_new, "scale", String("7d"))),
       Object(insert(Map_new, "gauss", Number(12))),
       Object(insert(Map_new, "source", Number(5))),
       Object(insert(Map_new, "field", Number(7))),
       Object(insert(Map_new, "weight", String("heavy"))),
       Array(<<>>),
       Object(insert(Map_new, "filter", Object(insert(Map_new, "type", String("Nope"))))),
       Object(insert(insert(Map_new, "field", String("likes")), "factor", String("big"))) >>

\* Filters of every variant of QueryType, compound ones nesting others; the
\* last holds a weight-only function.
SerdeFilterSamples ==
    << [MatchQuery_new("title", "rust") EXCEPT !.operator = Some("and"),
                                                !.boost = Some(Finite(20))],
       [type |-> "MatchAll"],
       [TermsQuery_new("status", <<String("a"), Number(2)>>) EXCEPT
           !.boost = Some(Finite(5))],
       [MatchPhraseQuery_new("title", "quick fox") EXCEPT !.slop = Some(2)],
       [MatchPhrasePrefixQuery_new("title", "qui") EXCEPT !.max_expansions = Some(10)],
       [RangeQuery_new("age") EXCEPT !.gte = Some(Number(18)), !.lt = Some(String("65"))],
       WildcardQuery_new_lib("name", <<"J", "o">>),
       RegexpQuery_new("name", "jo.*"),
       [RegexpQuery_new("name", "jo.*") EXCEPT !.flags = Some(<<"Intersection", "Empty">>)],
       [BoolQuery_new EXCEPT
           !.must = <<TermQuery_new("status", String("active")), [type |-> "MatchAll"]>>,
           !.should = <<[BoolQuery_new EXCEPT
                            !.filter = <<RegexpQuery_new("name", "jo.*")>>]>>,
           !.minimum_should_match = Some(-1)],
       [FunctionScoreQuery_new EXCEPT
           !.query = Some([type |-> "MatchAll"]),
           !.functions = <<[ScoreFunction_gauss("created_at", "7d") EXCEPT
                               !.filter = Some(TermQuery_new("status", String("active"))),
                               !.weight = Some(Finite(13))]>>,
           !.score_mode = Some("First"),
           !.boost_mode = Some("Replace"),
           !.max_boost = Some(Finite(30))],
       [FunctionScoreQuery_new EXCEPT
           !.functions = <<ScoreFunction_weight_only(Finite(20))>>] >>

\* Well-formed JSON from outside that writes a filter by position: the enum as
\* [type, params], a struct as the array of its fields, a mode as an object.
PositionalInputs ==
    << Object(insert(insert(Map_new, "field", String("likes")), "filter",
           Array(<<String("Term"),
                   Object(insert(insert(Map_new, "field", String("status")),
                                 "value", String("active")))>>))),
       Object(insert(insert(Map_new, "field", String("likes")), "filter",
           Object(insert(insert(Map_new, "type", String("Term")), "params",
               Array(<<String("status"), String("active"), Null>>))))),
       Object(insert(insert(Map_new, "field", String("likes")), "filter",
           Array(<<String("MatchAll"), Null>>))),
       Object(insert(insert(Map_new, "field", String("likes")), "filter",
           Array(<<String("MatchAll")>>))),
       Object(insert(insert(Map_new, "field", String("likes")), "filter",
           Object(insert(insert(Map_new, "type", String("FunctionScore")), "params",
               Object(insert(Map_new, "score_mode",
                   Object(insert(Map_new, "sum", Null)))))))),
       Object(insert(insert(Map_new, "field", String("likes")), "filter",
           Object(insert(insert(Map_new, "type", String("MatchPhrase")), "params",
               Object(insert(insert(insert(Map_new, "field", String("title")),
                   "query", String("quick fox")), "slop", Number(-1))))))) >>

\* The text {"field": "likes", "filter": ..} around a filter.
WithFilter(filter) ==
    Object(insert(insert(Map_new, "field", String("likes")), "filter", filter))

\* The text of a QueryType with its keys in the given order.
Tagged(keys, type, params) ==
    ObjectText(keys, insert(insert(Map_new, "type", type), "params", params))

TypeFirst == <<"type", "params">>
ParamsFirst == <<"params", "type">>

\* Params that only a buffered content is read from: a mode and a flag
\* written as an object holding an empty object, a query written as
\* [index, params].
EmptyObjectMode ==
    Object(insert(Map_new, "score_mode", Object(insert(Map_new, "sum", Object(Map_new)))))
EmptyObjectFlag ==
    Object(insert(insert(insert(Map_new, "field", String("name")),
        "value", String("jo.*")),
        "flags", Array(<<Object(insert(Map_new, "ALL", Object(Map_new)))>>)))
IndexedMust(index) ==
    Object(insert(Map_new, "must",
        Array(<<Array(<<Number(index),
                        Object(insert(insert(Map_new, "field", String("status")),
                                      "value", String("active")))>>)>>)))

\* JSON from outside whose reading depends on the order of "type" and
\* "params": each content once after its tag and once before it, a content
\* buffered one level down, a tag written as an object, and an index that
\* names no variant.
OrderedInputs ==
    << WithFilter(Tagged(ParamsFirst, String("FunctionScore"), EmptyObjectMode)),
       WithFilter(Tagged(TypeFirst, String("FunctionScore"), EmptyObjectMode)),
       WithFilter(Tagged(ParamsFirst, String("Regexp"), EmptyObjectFlag)),
       WithFilter(Tagged(TypeFirst, String("Regexp"), EmptyObjectFlag)),
       WithFilter(Tagged(ParamsFirst, String("Bool"), IndexedMust(0))),
       WithFilter(Tagged(TypeFirst, String("Bool"), IndexedMust(0))),
       WithFilter(Tagged(TypeFirst, String("Bool"),
           Object(insert(Map_new, "must",
               Array(<<Tagged(ParamsFirst, String("FunctionScore"), EmptyObjectMode)>>))))),
       WithFilter(Tagged(TypeFirst, Object(insert(Map_new, "Term", Null)),
           Object(insert(insert(Map_new, "field", String("status")),
                         "value", String("active"))))),
       WithFilter(Tagged(ParamsFirst, Object(insert(Map_new, "Term", Object(Map_new))),
           Object(insert(insert(Map_new, "field", String("status")),
                         "value", String("active"))))),
       WithFilter(Tagged(ParamsFirst, String("Bool"), IndexedMust(11))) >>

\* Either a score function of the typed model, still to be serialized, or
\* JSON from outside, still to be deserialized.
InitSerde ==
    /\ \/ InitScoreFunction /\ json = None
       \/ \E i \in DOMAIN SerdeFilterSamples :
           /\ target = [ScoreFunction_gauss("created_at", "7d") EXCEPT
                           !.filter = Some(SerdeFilterSamples[i])]
           /\ calls = <<Call("new", "Filter", i)>>
           /\ json = None
       \/ \E i \in DOMAIN PositionalInputs :
           /\ target = None
           /\ calls = <<Call("positional", "ScoreFunction", i)>>
           /\ json = Some(Ok(PositionalInputs[i]))
       \/ \E i \in DOMAIN OrderedInputs :
           /\ target = None
           /\ calls = <<Call("ordered", "ScoreFunction", i)>>
           /\ json = Some(Ok(OrderedInputs[i]))
       \/ \E i \in DOMAIN MalformedInputs :
           /\ target = None
           /\ calls = <<Call("external", "ScoreFunction", i)>>
           /\ json = Some(Ok(MalformedInputs[i]))
    /\ built = None

\* serde_json::to_string(&function); the text is held as the JSON value it
\* spells.
Serde_to_value ==
    /\ json = None
    /\ json' = Some(ScoreFunction_serialize(target))
    /\ UNCHANGED <<target, calls, built>>

\* serde_json::from_str::<ScoreFunction>(&json), when there is JSON to read
Serde_from_value ==
    /\ is_some(json)
    /\ unwrap(json).ok
    /\ built = None
    /\ built' = Some(ScoreFunction_deserialize(Json, unwrap(json).val))
    /\ UNCHANGED <<target, calls, json>>

NextSerde ==
    \/ Serde_to_value
    \/ Serde_from_value

SpecSerde == InitSerde /\ [][NextSerde]_vars

\* C18: for every value of the typed model, decode(encode(x)) succeeds and is
\* equal to x, with the same variant and the same field values.
C18_RoundTrip ==
    calls[1].op = "new" =>
        /\ is_some(json) => unwrap(json).ok
        /\ is_some(built) =>
               /\ unwrap(built).ok
               /\ unwrap(built).val.function.type = target.function.type
               /\ unwrap(built).val = target

\* C19: deserializing malformed JSON fails with a deserialization error; it is
\* never turned into a value of another variant or into default values.
C19_MalformedRejected ==
    (calls[1].op = "external" /\ is_some(built)) => ~unwrap(built).ok

(***************************************************************************)
(* Properties of the builders: what can be set, and what a call changes.    *)
(***************************************************************************)
\* C21, as stated: minimum_should_match is an integer count only; neither a
\* negative value nor a percentage string can be set through the builder or
\* appear as the "minimum_should_match" of a serialized bool object.
C21_CountOnly ==
    /\ is_some(target.minimum_should_match) => unwrap(target.minimum_should_match) >= 0
    /\ (is_some(json) /\ "minimum_should_match" \in Keys(BoolObj)) =>
           /\ BoolObj.obj["minimum_should_match"].kind = "number"
           /\ BoolObj.obj["minimum_should_match"].num >= 0

\* C21, amended: minimum_should_match is an integer only; no percentage
\* string can be set or appear: the serialized value is the JSON integer of
\* the last minimum_should_match call, negative or not.
C21_IntegerOnly ==
    /\ is_some(target.minimum_should_match) => unwrap(target.minimum_should_match) \in Int
    /\ (is_some(json) /\ "minimum_should_match" \in Called) =>
           /\ "minimum_should_match" \in Keys(BoolObj)
           /\ BoolObj.obj["minimum_should_match"] = Number(Last("minimum_should_match").arg)

\* A negative minimum_should_match was set and serialized as that integer.
C21_Witness ==
    /\ is_some(json)
    /\ "minimum_should_match" \in Called
    /\ Last("minimum_should_match").arg = -1
    /\ BoolObj.obj["minimum_should_match"] = Number(-1)

(***************************************************************************)
(* The two flavours side by side: the same calls made on a mutable builder *)
(* (&mut self) and on the consuming fluent chain (mut self) -> Self.  Here  *)
(* target holds both: target.builder and target.fluent.                     *)
(***************************************************************************)
DualKinds == <<"Request", "Bool", "Range", "FunctionScore">>

InitDual ==
    /\ \E k \in DOMAIN DualKinds :
           target = [kind |-> DualKinds[k],
                     builder |-> CASE k = 1 -> SearchRequestBuilder_new
                                   [] k = 2 -> BoolQueryBuilder_new
                                   [] k = 3 -> [field |-> "age", gte |-> None, gt |-> None,
                                                lte |-> None, lt |-> None, boost |-> None]
                                   [] k = 4 -> [query |-> None, functions |-> <<>>,
                                                score_mode |-> None, boost_mode |-> None,
                                                max_boost |-> None, boost |-> None,
                                                min_score |-> None],
                     fluent |-> CASE k = 1 -> SearchRequest_new
                                  [] k = 2 -> BoolQuery_new
                                  [] k = 3 -> RangeQuery_new("age")
                                  [] k = 4 -> FunctionScoreQuery_new]
    /\ calls = <<>>
    /\ built = None
    /\ json = None

\* One call made on both flavours.
Both(builder, fluent, call) ==
    /\ Len(calls) < MaxCalls
    /\ target' = [target EXCEPT !.builder = builder, !.fluent = fluent]
    /\ calls' = Append(calls, call)
    /\ built' = None
    /\ json' = None

\* SearchRequestBuilder::{query, size, from, add_sort, add_agg,
\* set_source_fields, highlight, track_total_hits, collapse} and
\* SearchRequest::{query, size, from, sort, agg, source_fields, highlight,
\* track_total_hits, collapse}.
Dual_Request ==
    /\ target.kind = "Request"
    /\ \/ \E i \in 1..2 :
              Both([target.builder EXCEPT !.query = Some(QuerySamples[i])],
                   [target.fluent EXCEPT !.query = Some(QuerySamples[i])],
                   Call("query", "", i))
       \/ \E size \in {0, 10} :
              Both([target.builder EXCEPT !.size = Some(size)],
                   [target.fluent EXCEPT !.size = Some(size)],
                   Call("size", "", size))
       \/ \E from \in {0} :
              Both([target.builder EXCEPT !.from = Some(from)],
                   [target.fluent EXCEPT !.from = Some(from)],
                   Call("from", "", from))
       \/ \E i \in 1..2 :
              Both([target.builder EXCEPT !.sort = Append(@, SortSamples[i])],
                   [target.fluent EXCEPT !.sort = Append(@, SortSamples[i])],
                   Call("sort", "", i))
       \/ \E c \in {<<1, 1>>, <<1, 2>>} :
              Both([target.builder EXCEPT
                       !.aggs = HashMap_insert(@, AggNames[c[1]], AggSamples[c[2]])],
                   [target.fluent EXCEPT
                       !.aggs = HashMap_insert(@, AggNames[c[1]], AggSamples[c[2]])],
                   Call("agg", AggNames[c[1]], c[2]))
       \/ \E i \in DOMAIN SourceListSamples :
              Both([target.builder EXCEPT !._source = SourceListSamples[i]],
                   [target.fluent EXCEPT !._source = SourceListSamples[i]],
                   Call("source_fields", "", i))
       \/ \E i \in DOMAIN HighlightSamples :
              Both([target.builder EXCEPT !.highlight = Some(HighlightSamples[i])],
                   [target.fluent EXCEPT !.highlight = Some(HighlightSamples[i])],
                   Call("highlight", "", i))
       \/ \E track \in BOOLEAN :
              Both([target.builder EXCEPT !.track_total_hits = Some(track)],
                   [target.fluent EXCEPT !.track_total_hits = Some(track)],
                   Call("track_total_hits", "", IF track THEN 1 ELSE 0))
       \/ \E i \in DOMAIN CollapseSamples :
              Both([target.builder EXCEPT !.collapse = Some(CollapseSamples[i])],
                   [target.fluent EXCEPT !.collapse = Some(CollapseSamples[i])],
                   Call("collapse", "", i))

\* BoolQueryBuilder and BoolQuery: must, must_not, should, filter,
\* minimum_should_match, boost.
Dual_Bool ==
    /\ target.kind = "Bool"
    /\ \/ \E i \in 1..2 :
              Both([target.builder EXCEPT !.must = Append(@, QuerySamples[i])],
                   [target.fluent EXCEPT !.must = Append(@, QuerySamples[i])],
                   Call("must", "", i))
       \/ \E i \in 1..2 :
              Both([target.builder EXCEPT !.must_not = Append(@, QuerySamples[i])],
                   [target.fluent EXCEPT !.must_not = Append(@, QuerySamples[i])],
                   Call("must_not", "", i))
       \/ \E i \in 1..2 :
              Both([target.builder EXCEPT !.should = Append(@, QuerySamples[i])],
                   [target.fluent EXCEPT !.should = Append(@, QuerySamples[i])],
                   Call("should", "", i))
       \/ \E i \in 1..2 :
              Both([target.builder EXCEPT !.filter = Append(@, QuerySamples[i])],
                   [target.fluent EXCEPT !.filter = Append(@, QuerySamples[i])],
                   Call("filter", "", i))
       \/ \E min \in {1, 2} :
              Both([target.builder EXCEPT !.minimum_should_match = Some(min)],
                   [target.fluent EXCEPT !.minimum_should_match = Some(min)],
                   Call("minimum_should_match", "", min))
       \/ \E i \in 1..2 :
              Both([target.builder EXCEPT !.boost = Some(Floats[i])],
                   [target.fluent EXCEPT !.boost = Some(Floats[i])],
                   Call("boost", "", i))

Dual_Range_GteClearsGt ==
    /\ target.kind = "Range"
    /\ \/ \E i \in DOMAIN TermValues :
              Both([target.builder EXCEPT !.gte = Some(TermValues[i]), !.gt = None],
                   [target.fluent EXCEPT !.gte = Some(TermValues[i])],
                   Call("gte", "", i))
       \/ \E i \in DOMAIN TermValues :
              Both([target.builder EXCEPT !.gt = Some(TermValues[i])],
                   [target.fluent EXCEPT !.gt = Some(TermValues[i])],
                   Call("gt", "", i))
       \/ \E i \in DOMAIN TermValues :
              Both([target.builder EXCEPT !.lte = Some(TermValues[i])],
                   [target.fluent EXCEPT !.lte = Some(TermValues[i])],
                   Call("lte", "", i))
       \/ \E i \in DOMAIN TermValues :
              Both([target.builder EXCEPT !.lt = Some(TermValues[i])],
                   [target.fluent EXCEPT !.lt = Some(TermValues[i])],
                   Call("lt", "", i))
       \/ \E i \in 1..2 :
              Both([target.builder EXCEPT !.boost = Some(Floats[i])],
                   [target.fluent EXCEPT !.boost = Some(Floats[i])],
                   Call("boost", "", i))

\* RangeQueryBuilder and RangeQuery: gte, gt, lte, lt, boost.
Dual_Range ==
    /\ target.kind = "Range"
    /\ \/ \E i \in DOMAIN TermValues :
              Both([target.builder EXCEPT !.gte = Some(TermValues[i])],
                   [target.fluent EXCEPT !.gte = Some(TermValues[i])],
                   Call("gte", "", i))
       \/ \E i \in DOMAIN TermValues :
              Both([target.builder EXCEPT !.gt = Some(TermValues[i])],
                   [target.fluent EXCEPT !.gt = Some(TermValues[i])],
                   Call("gt", "", i))
       \/ \E i \in DOMAIN TermValues :
              Both([target.builder EXCEPT !.lte = Some(TermValues[i])],
                   [target.fluent EXCEPT !.lte = Some(TermValues[i])],
                   Call("lte", "", i))
       \/ \E i \in DOMAIN TermValues :
              Both([target.builder EXCEPT !.lt = Some(TermValues[i])],
                   [target.fluent EXCEPT !.lt = Some(TermValues[i])],
                   Call("lt", "", i))
       \/ \E i \in 1..2 :
              Both([target.builder EXCEPT !.boost = Some(Floats[i])],
                   [target.fluent EXCEPT !.boost = Some(Floats[i])],
                   Call("boost", "", i))

\* FunctionScoreQueryBuilder and FunctionScoreQuery: query, function,
\* score_mode, boost_mode, max_boost, boost, min_score.
Dual_FunctionScore ==
    /\ target.kind = "FunctionScore"
    /\ \/ \E i \in 1..1 :
              Both([target.builder EXCEPT !.query = Some(QuerySamples[i])],
                   [target.fluent EXCEPT !.query = Some(QuerySamples[i])],
                   Call("query", "", i))
       \/ \E i \in 1..2 :
              Both([target.builder EXCEPT !.functions = Append(@, FunctionSamples[i])],
                   [target.fluent EXCEPT !.functions = Append(@, FunctionSamples[i])],
                   Call("function", "", i))
       \/ \E i \in 1..2 :
              Both([target.builder EXCEPT !.score_mode = Some(ScoreModes[i])],
                   [target.fluent EXCEPT !.score_mode = Some(ScoreModes[i])],
                   Call("score_mode", "", i))
       \/ \E i \in 1..2 :
              Both([target.builder EXCEPT !.boost_mode = Some(BoostModes[i])],
                   [target.fluent EXCEPT !.boost_mode = Some(BoostModes[i])],
                   Call("boost_mode", "", i))
       \/ \E i \in 1..1 :
              Both([target.builder EXCEPT !.max_boost = Some(Floats[i])],
                   [target.fluent EXCEPT !.max_boost = Some(Floats[i])],
                   Call("max_boost", "", i))
       \/ \E i \in 1..2 :
              Both([target.builder EXCEPT !.boost = Some(Floats[i])],
                   [target.fluent EXCEPT !.boost = Some(Floats[i])],
                   Call("boost", "", i))
       \/ \E i \in 2..2 :
              Both([target.builder EXCEPT !.min_score = Some(Floats[i])],
                   [target.fluent EXCEPT !.min_score = Some(Floats[i])],
                   Call("min_score", "", i))

Builder_build_DropsBoostAndCollapse(kind, self) ==
    CASE kind = "Request" ->
            [query |-> self.query, size |-> self.size, from |-> self.from,
             sort |-> self.sort, aggs |-> self.aggs, _source |-> self._source,
             highlight |-> self.highlight,
             track_total_hits |-> self.track_total_hits, collapse |-> None]
      [] kind = "Bool" ->
            [type |-> "Bool", must |-> self.must, must_not |-> self.must_not,
             should |-> self.should, filter |-> self.filter,
             minimum_should_match |-> self.minimum_should_match, boost |-> None]
      [] kind = "Range" ->
            [type |-> "Range", field |-> self.field, gte |-> self.gte, gt |-> self.gt,
             lte |-> self.lte, lt |-> self.lt, boost |-> None]
      [] kind = "FunctionScore" ->
            [type |-> "FunctionScore", query |-> self.query,
             functions |-> self.functions, score_mode |-> self.score_mode,
             boost_mode |-> self.boost_mode, max_boost |-> self.max_boost,
             boost |-> None, min_score |-> self.min_score]

\* build(self): every field of the builder is moved into the value.
Builder_build(kind, self) ==
    CASE kind = "Request" ->
            [query |-> self.query, size |-> self.size, from |-> self.from,
             sort |-> self.sort, aggs |-> self.aggs, _source |-> self._source,
             highlight |-> self.highlight,
             track_total_hits |-> self.track_total_hits, collapse |-> self.collapse]
      [] kind = "Bool" ->
            [type |-> "Bool", must |-> self.must, must_not |-> self.must_not,
             should |-> self.should, filter |-> self.filter,
             minimum_should_match |-> self.minimum_should_match, boost |-> self.boost]
      [] kind = "Range" ->
            [type |-> "Range", field |-> self.field, gte |-> self.gte, gt |-> self.gt,
             lte |-> self.lte, lt |-> self.lt, boost |-> self.boost]
      [] kind = "FunctionScore" ->
            [type |-> "FunctionScore", query |-> self.query,
             functions |-> self.functions, score_mode |-> self.score_mode,
             boost_mode |-> self.boost_mode, max_boost |-> self.max_boost,
             boost |-> self.boost, min_score |-> self.min_score]

\* to_json of a SearchRequest or of one of the three queries.
Dual_json(kind, value) ==
    IF kind = "Request" THEN SearchRequest_to_json(value) ELSE QueryType_to_json(value)

\* build() on the builder, then to_json on what it built and on the value of
\* the fluent chain.
Dual_to_json ==
    /\ json = None
    /\ built' = Some(Builder_build(target.kind, target.builder))
    /\ json' = Some([builder |-> Dual_json(target.kind,
                                     Builder_build(target.kind, target.builder)),
                     fluent |-> Dual_json(target.kind, target.fluent)])
    /\ UNCHANGED <<target, calls>>

NextDual ==
    \/ Dual_Request
    \/ Dual_Bool
    \/ Dual_Range
    \/ Dual_FunctionScore
    \/ Dual_to_json

SpecDual == InitDual /\ [][NextDual]_vars

\* C22: the same calls on the fluent chain and on the builder followed by
\* build() give equal to_json, and build() copies every builder field
\* unchanged; for SearchRequest, BoolQuery, RangeQuery and FunctionScoreQuery.
C22_BuilderDuality ==
    is_some(json) =>
        /\ unwrap(json).builder = unwrap(json).fluent
        /\ \A f \in DOMAIN target.builder : unwrap(built)[f] = target.builder[f]

\* Three calls on a request, two of them sorts, built and serialized alike.
C22_Witness ==
    /\ is_some(json)
    /\ target.kind = "Request"
    /\ Len(calls) = 3
    /\ calls[1].op = "sort" /\ calls[2].op = "collapse" /\ calls[3].op = "sort"
    /\ Keys(unwrap(json).fluent) = {"sort", "collapse"}
    /\ Len(unwrap(json).builder.obj["sort"].arr) = 2

(***************************************************************************)
(* Properties of to_owned, of the mode tokens and of the sorts.             *)
(***************************************************************************)
\* C23: for every query q, q.to_owned().to_json() equals q.to_json(), and the
\* copy keeps every clause, its order and every optional field, through Bool
\* and FunctionScore children.
C23_OwnedSerializesAlike ==
    (calls[1].name \in QueryFamilies /\ is_some(built)) =>
        /\ unwrap(built).value = target
        /\ is_some(json) => unwrap(built).json = Out

\* The owned copy of a bool query with three should clauses, one of them a
\* bool query itself, serializes to the same three clauses in order.
C23_Witness ==
    /\ calls[1].name = "Query"
    /\ calls[1].arg = 8
    /\ is_some(built)
    /\ is_some(json)
    /\ Len(unwrap(built).json.obj["bool"].obj["should"].arr) = 3
    /\ unwrap(built).json.obj["bool"].obj["should"].arr[3] = Out.obj["bool"].obj["should"].arr[3]
    /\ "bool" \in Keys(Out.obj["bool"].obj["should"].arr[3])

\* The token of each mode and of each sort order, as the claim lists them.
ScoreModeTokens ==
    [Multiply |-> "multiply", Sum |-> "sum", Avg |-> "avg", First |-> "first",
     Max |-> "max", Min |-> "min"]
BoostModeTokens ==
    [Multiply |-> "multiply", Replace |-> "replace", Sum |-> "sum", Avg |-> "avg",
     Max |-> "max", Min |-> "min"]
SortOrderTokens == [Asc |-> "asc", Desc |-> "desc"]

\* Where a serialized sort holds its order: beside the script, under
\* "_score", or under the field (a field sort without options).
OrderOf(variant) ==
    CASE variant = "ScriptSort" -> Out.obj["_script"].obj["order"]
      [] variant = "ScoreWithOrder" -> Out.obj["_score"]
      [] variant = "Field" -> Out.obj[target.field]

\* C24: every ScoreMode and BoostMode value serializes to its fixed lowercase
\* token, one distinct token per variant, and SortOrder to "asc" or "desc".
C24_ModeTokens ==
    /\ Serialized("FunctionScore") =>
           /\ is_some(target.score_mode) =>
                  FunctionScoreObj.obj["score_mode"] =
                      String(ScoreModeTokens[unwrap(target.score_mode)])
           /\ is_some(target.boost_mode) =>
                  FunctionScoreObj.obj["boost_mode"] =
                      String(BoostModeTokens[unwrap(target.boost_mode)])
    /\ \A a, b \in DOMAIN ScoreModes :
           a # b => ScoreMode_str(ScoreModes[a]) # ScoreMode_str(ScoreModes[b])
    /\ \A a, b \in DOMAIN BoostModes :
           a # b => BoostMode_str(BoostModes[a]) # BoostMode_str(BoostModes[b])
    /\ (Serialized("Sort") /\ calls[1].arg.variant # "Score") =>
           OrderOf(calls[1].arg.variant) = String(SortOrderTokens[target.order])

\* A function score query serialized with score_mode First and boost_mode
\* Replace.
C24_Witness ==
    /\ Serialized("FunctionScore")
    /\ calls[1].arg = [score_mode |-> 4, boost_mode |-> 2]
    /\ FunctionScoreObj.obj["score_mode"] = String("first")
    /\ FunctionScoreObj.obj["boost_mode"] = String("replace")

ScriptSortTypeTokens == [Number |-> "number", String |-> "string", Version |-> "version"]
LangTokens == [Painless |-> "painless", Expression |-> "expression", Mustache |-> "mustache"]
SortModeTokens ==
    [Min |-> "min", Max |-> "max", Sum |-> "sum", Avg |-> "avg", Median |-> "median"]

\* The keys an option adds when it is set.
KeyIfSet(opt, key) == IF is_some(opt) THEN {key} ELSE {}

\* The shape the claim gives for a script sort: the object under "_script"
\* and, inside it, the object under "script".
ScriptSortShape(sort, value) ==
    /\ value.kind = "object"
    /\ Keys(value) = {"_script"}
    /\ value.obj["_script"].kind = "object"
    /\ LET s == value.obj["_script"]
       IN  /\ Keys(s) = {"type", "script", "order"} \cup KeyIfSet(sort.mode, "mode")
           /\ s.obj["type"] = String(ScriptSortTypeTokens[sort.sort_type])
           /\ s.obj["order"] = String(SortOrderTokens[sort.order])
           /\ is_some(sort.mode) =>
                  s.obj["mode"] = String(SortModeTokens[unwrap(sort.mode)])
           /\ s.obj["script"].kind = "object"
           /\ Keys(s.obj["script"]) =
                  {"source", "lang"} \cup KeyIfSet(sort.script.params, "params")
           /\ s.obj["script"].obj["source"] = String(sort.script.source)
           /\ s.obj["script"].obj["lang"] = String(LangTokens[sort.script.lang])
           /\ is_some(sort.script.params) =>
                  s.obj["script"].obj["params"] = unwrap(sort.script.params)

\* C25: a script sort serializes to {"_script": {type, script: {source, lang,
\* params?}, order, mode?}} with type, source, lang (painless unless set) and
\* order always present and params and mode present exactly when set; Score
\* serializes to the string "_score" and ScoreWithOrder to {"_score": order}.
C25_ScriptSortShape ==
    Serialized("Sort") =>
        /\ calls[1].arg.variant = "ScriptSort" =>
               /\ ScriptSortShape(target, Out)
               /\ calls[1].arg.lang = 0 =>
                      Out.obj["_script"].obj["script"].obj["lang"] = String("painless")
        /\ calls[1].arg.variant = "Score" => Out = String("_score")
        /\ calls[1].arg.variant = "ScoreWithOrder" =>
               Out = Object(insert(Map_new, "_score",
                                   String(SortOrderTokens[target.order])))

\* A script sort serialized with neither lang, params nor mode set: it has
\* lang painless and no "params" and no "mode" key.
C25_Witness ==
    /\ Serialized("Sort")
    /\ calls[1].arg.variant = "ScriptSort"
    /\ calls[1].arg.lang = 0
    /\ target.mode = None
    /\ target.script.params = None
    /\ Keys(Out.obj["_script"]) = {"type", "script", "order"}
    /\ Out.obj["_script"].obj["script"].obj["lang"] = String("painless")

\* The builder field a call writes.
FieldOf(op) ==
    CASE op = "sort" -> "sort"
      [] op = "agg" -> "aggs"
      [] op = "source_fields" -> "_source"
      [] op = "function" -> "functions"
      [] OTHER -> op

ListAppends == {"sort", "must", "must_not", "should", "filter", "function"}
CollectionSetters == {"agg", "source_fields"}

\* The value a logged call passed.
ArgValue(call) ==
    CASE call.op \in {"query", "must", "must_not", "should", "filter"} ->
            QuerySamples[call.arg]
      [] call.op \in {"size", "from", "minimum_should_match"} -> call.arg
      [] call.op = "track_total_hits" -> call.arg = 1
      [] call.op = "sort" -> SortSamples[call.arg]
      [] call.op = "highlight" -> HighlightSamples[call.arg]
      [] call.op = "collapse" -> CollapseSamples[call.arg]
      [] call.op \in {"boost", "max_boost", "min_score"} -> Floats[call.arg]
      [] call.op \in {"gte", "gt", "lte", "lt"} -> TermValues[call.arg]
      [] call.op = "function" -> FunctionSamples[call.arg]
      [] call.op = "score_mode" -> ScoreModes[call.arg]
      [] call.op = "boost_mode" -> BoostModes[call.arg]

\* One more call was made in this step.
CallStep == Len(calls') = Len(calls) + 1

\* C26: in the four mutable builders a scalar setter overwrites only its own
\* field with its latest argument and an append changes only its own list, by
\* adding its argument at the end; every other field is left unchanged.
C26_SetterFrame ==
    [][CallStep =>
          LET call == calls'[Len(calls')]
              own == FieldOf(call.op)
          IN  /\ \A f \in DOMAIN target.builder \ {own} :
                     target'.builder[f] = target.builder[f]
              /\ call.op \in ListAppends =>
                     target'.builder[own] = Append(target.builder[own], ArgValue(call))
              /\ call.op \notin ListAppends \cup CollectionSetters =>
                     target'.builder[own] = Some(ArgValue(call))]_vars

\* size(0), add_sort, size(10) on a request builder: size holds 10 and the
\* sort list the one sort.
C26_Witness ==
    /\ target.kind = "Request"
    /\ Len(calls) = 3
    /\ calls[1] = Call("size", "", 0)
    /\ calls[2].op = "sort"
    /\ calls[3] = Call("size", "", 10)
    /\ target.builder.size = Some(10)
    /\ Len(target.builder.sort) = 1

ScalarFields == {"query", "size", "from", "highlight", "track_total_hits", "collapse"}

\* The calls that can leave each collection empty.
EmptyingCalls ==
    [sort |-> {"clear_sorts", "set_sorts"},
     aggs |-> {"clear_aggs", "remove_agg"},
     _source |-> {"clear_source_fields", "set_source_fields"}]

IsEmpty(field, value) ==
    IF field = "aggs" THEN value = HashMap_new ELSE value = <<>>

\* C27: in SearchRequestBuilder a scalar field that was set stays set whatever
\* is called next, every build() then carries it and to_json emits its key;
\* a collection goes from non-empty to empty only through clear_*, set_* or
\* remove_agg.
C27_ScalarsStaySet ==
    [][/\ \A f \in ScalarFields :
              /\ is_some(target[f]) => is_some(target'[f])
              /\ f \in { calls'[i].op : i \in 1..Len(calls') } => is_some(target'[f])
              /\ (is_some(target'[f]) /\ is_some(built')) => is_some(unwrap(built')[f])
              /\ (is_some(target'[f]) /\ is_some(json')) => f \in Keys(unwrap(json'))
       /\ \A c \in DOMAIN EmptyingCalls :
              (~IsEmpty(c, target[c]) /\ IsEmpty(c, target'[c])) =>
                  calls'[Len(calls')].op \in EmptyingCalls[c]]_vars

\* size, add_sort, clear_sorts, build, to_json: "size" is emitted and "sort"
\* is not.
C27_Witness ==
    /\ Len(calls) = 3
    /\ calls[1].op = "size"
    /\ calls[2].op = "add_sort"
    /\ calls[3].op = "clear_sorts"
    /\ is_some(json)
    /\ "size" \in Keys(Out)
    /\ "sort" \notin Keys(Out)

(***************************************************************************)
(* The four maps keyed by name: SearchRequestBuilder.aggs (add_agg),       *)
(* SearchRequest.aggs (agg), TermsAggregation.sub_aggs (sub_agg) and       *)
(* Highlight.fields (field); then to_json of the holder.                   *)
(***************************************************************************)
MapHolders == <<"Builder", "Request", "Terms", "Highlight">>

HighlightFieldSamples ==
    << HighlightField_new,
       [HighlightField_new EXCEPT !.pre_tags = <<"<em>">>, !.post_tags = <<"</em>">>] >>

InitMaps ==
    /\ \E k \in DOMAIN MapHolders :
           target = [kind |-> MapHolders[k],
                     value |-> CASE k = 1 -> SearchRequestBuilder_new
                                 [] k = 2 -> SearchRequest_new
                                 [] k = 3 -> TermsAggregation_new("category")
                                 [] k = 4 -> Highlight_new]
    /\ calls = <<>>
    /\ built = None
    /\ json = None

\* SearchRequestBuilder::add_agg: self.aggs.insert(name, agg)
Maps_add_agg ==
    /\ target.kind = "Builder"
    /\ \E n \in DOMAIN AggNames, i \in DOMAIN AggSamples :
           Mutate([target EXCEPT !.value.aggs = HashMap_insert(@, AggNames[n], AggSamples[i])],
                  Call("add_agg", AggNames[n], i))

\* SearchRequest::agg: self.aggs.insert(name, agg)
Maps_agg ==
    /\ target.kind = "Request"
    /\ \E n \in DOMAIN AggNames, i \in DOMAIN AggSamples :
           Mutate([target EXCEPT !.value.aggs = HashMap_insert(@, AggNames[n], AggSamples[i])],
                  Call("agg", AggNames[n], i))

\* TermsAggregation::sub_agg: self.sub_aggs.insert(name, agg)
Maps_sub_agg ==
    /\ target.kind = "Terms"
    /\ \E n \in DOMAIN AggNames, i \in DOMAIN AggSamples :
           Mutate([target EXCEPT
                      !.value.sub_aggs = HashMap_insert(@, AggNames[n], AggSamples[i])],
                  Call("sub_agg", AggNames[n], i))

\* TermsAggregation::size: self.size = Some(size)
Maps_size ==
    /\ target.kind = "Terms"
    /\ \E size \in {0, 10} :
           Mutate([target EXCEPT !.value.size = Some(size)], Call("size", "", size))

\* Highlight::field: self.fields.insert(field_name, highlight_field)
Maps_field ==
    /\ target.kind = "Highlight"
    /\ \E n \in DOMAIN Fields, i \in DOMAIN HighlightFieldSamples :
           Mutate([target EXCEPT
                      !.value.fields = HashMap_insert(@, Fields[n], HighlightFieldSamples[i])],
                  Call("field", Fields[n], i))

\* Highlight::require_field_match: self.require_field_match = Some(..)
Maps_require_field_match ==
    /\ target.kind = "Highlight"
    /\ \E require_field_match \in BOOLEAN :
           Mutate([target EXCEPT !.value.require_field_match = Some(require_field_match)],
                  Call("require_field_match", "", IF require_field_match THEN 1 ELSE 0))

\* build() for the builder, then to_json of the request, the aggregation or
\* the highlight.
Maps_to_json ==
    /\ json = None
    /\ json' = Some(CASE target.kind = "Builder" ->
                             SearchRequest_to_json(Builder_build("Request", target.value))
                      [] target.kind = "Request" -> SearchRequest_to_json(target.value)
                      [] target.kind = "Terms" -> AggregationType_to_json(target.value)
                      [] target.kind = "Highlight" -> Highlight_to_json(target.value))
    /\ UNCHANGED <<target, calls, built>>

NextMaps ==
    \/ Maps_add_agg
    \/ Maps_agg
    \/ Maps_sub_agg
    \/ Maps_size
    \/ Maps_field
    \/ Maps_require_field_match
    \/ Maps_to_json

SpecMaps == InitMaps /\ [][NextMaps]_vars

\* The key the serialized holder keeps its map under.
MapKey == IF target.kind = "Highlight" THEN "fields" ELSE "aggs"

\* The calls that insert into the map.
MapInserts == {"add_agg", "agg", "sub_agg", "field"}

\* The names passed so far.
NamesPresent == { calls[i].name : i \in { k \in 1..Len(calls) : calls[k].op \in MapInserts } }

\* The call that last passed name n (there is one).
LastNamed(n) ==
    calls[CHOOSE i \in 1..Len(calls) :
              /\ calls[i].op \in MapInserts
              /\ calls[i].name = n
              /\ \A k \in (i + 1)..Len(calls) : calls[k].name # n]

\* to_json of the value a call passed.
PassedJson(call) ==
    IF call.op = "field" THEN HighlightField_to_json(HighlightFieldSamples[call.arg])
    ELSE AggregationType_to_json(AggSamples[call.arg])

\* C28: each map holds one entry per name and an insert on a name already
\* present replaces its entry with the newest value: the keys serialized under
\* "aggs" (or "fields") are the distinct names passed, as many as there are,
\* each with the value of the last call on that name; for add_agg, agg,
\* sub_agg and Highlight.field.
C28_OneEntryPerName ==
    is_some(json) =>
        /\ (MapKey \in Keys(Out)) <=> (NamesPresent # {})
        /\ (MapKey \in Keys(Out)) =>
               /\ Keys(Out.obj[MapKey]) = NamesPresent
               /\ Cardinality(Keys(Out.obj[MapKey])) = Cardinality(NamesPresent)
               /\ \A n \in NamesPresent :
                      Out.obj[MapKey].obj[n] = PassedJson(LastNamed(n))

\* sub_agg on the same name twice with different aggregations, then another
\* name: two keys, the first holding the second aggregation.
C28_Witness ==
    /\ target.kind = "Terms"
    /\ is_some(json)
    /\ Len(calls) = 3
    /\ calls[1] = Call("sub_agg", "by_category", 1)
    /\ calls[2] = Call("sub_agg", "by_category", 2)
    /\ calls[3].name = "users"
    /\ Keys(Out.obj["aggs"]) = {"by_category", "users"}
    /\ Out.obj["aggs"].obj["by_category"] = AggregationType_to_json(AggSamples[2])

(***************************************************************************)
(* ScoreFunction of lib.rs: the seven constructors, a Weight function       *)
(* written as a struct literal without its weight field, every setter, and  *)
(* to_json.                                                                 *)
(***************************************************************************)
SetterStarts ==
    << ScoreFunction_gauss("created_at", "7d"),
       [ScoreFunction_gauss("created_at", "7d") EXCEPT !.function.type = "Exp"],
       [ScoreFunction_gauss("created_at", "7d") EXCEPT !.function.type = "Linear"],
       ScoreFunction_field_value_factor("likes"),
       [function |-> [type |-> "RandomScore", seed |-> None, field |-> None],
        filter |-> None, weight |-> None],
       [function |-> [type |-> "ScriptScore", source |-> "_score * 2", params |-> None],
        filter |-> None, weight |-> None],
       ScoreFunction_weight_only(Finite(20)),
       [function |-> [type |-> "Weight", value |-> Finite(7)], filter |-> None,
        weight |-> None] >>

InitSetters ==
    /\ \E i \in DOMAIN SetterStarts : target = SetterStarts[i]
    /\ calls = <<>>
    /\ built = None
    /\ json = None

\* ScoreFunction::filter
Setter_filter ==
    Mutate([target EXCEPT !.filter = Some(QuerySamples[1])], Call("filter", "", 0))

Setter_weight_KeepsFirst ==
    \E i \in 1..2 :
        Mutate([target EXCEPT !.weight = IF is_some(@) THEN @ ELSE Some(Floats[i])],
               Call("weight", "", i))

\* ScoreFunction::weight
Setter_weight ==
    \E i \in 1..2 :
        Mutate([target EXCEPT !.weight = Some(Floats[i])], Call("weight", "", i))

\* ScoreFunction::origin: match &mut self.function { Gauss | Exp | Linear => ..., _ => {} }
Setter_origin ==
    Mutate(IF target.function.type \in {"Gauss", "Exp", "Linear"}
           THEN [target EXCEPT !.function.origin = Some(String("now"))]
           ELSE target,
           Call("origin", "", 0))

\* ScoreFunction::offset: match &mut self.function { Gauss | Exp | Linear => ..., _ => {} }
Setter_offset ==
    Mutate(IF target.function.type \in {"Gauss", "Exp", "Linear"}
           THEN [target EXCEPT !.function.offset = Some("3d")]
           ELSE target,
           Call("offset", "", 0))

Setter_decay_OnAnyVariant ==
    Mutate([target EXCEPT !.function =
               [x \in (DOMAIN @) \cup {"decay"} |-> IF x = "decay" THEN Some(Finite(5)) ELSE @[x]]],
           Call("decay", "", 0))

\* ScoreFunction::decay: match &mut self.function { Gauss | Exp | Linear => ..., _ => {} }
Setter_decay ==
    Mutate(IF target.function.type \in {"Gauss", "Exp", "Linear"}
           THEN [target EXCEPT !.function.decay = Some(Finite(5))]
           ELSE target,
           Call("decay", "", 0))

\* ScoreFunction::factor: if let FieldValueFactor(..) = &mut self.function
Setter_factor ==
    Mutate(IF target.function.type = "FieldValueFactor"
           THEN [target EXCEPT !.function.factor = Some(Finite(12))]
           ELSE target,
           Call("factor", "", 0))

\* ScoreFunction::modifier: if let FieldValueFactor(..) = &mut self.function
Setter_modifier ==
    Mutate(IF target.function.type = "FieldValueFactor"
           THEN [target EXCEPT !.function.modifier = Some("log1p")]
           ELSE target,
           Call("modifier", "", 0))

\* ScoreFunction::missing: if let FieldValueFactor(..) = &mut self.function
Setter_missing ==
    Mutate(IF target.function.type = "FieldValueFactor"
           THEN [target EXCEPT !.function.missing = Some(Finite(10))]
           ELSE target,
           Call("missing", "", 0))

\* ScoreFunction::seed: if let RandomScore(..) = &mut self.function
Setter_seed ==
    Mutate(IF target.function.type = "RandomScore"
           THEN [target EXCEPT !.function.seed = Some(Number(12345))]
           ELSE target,
           Call("seed", "", 0))

\* ScoreFunction::field: if let RandomScore(..) = &mut self.function
Setter_field ==
    Mutate(IF target.function.type = "RandomScore"
           THEN [target EXCEPT !.function.field = Some("_seq_no")]
           ELSE target,
           Call("field", "", 0))

\* ScoreFunction::params: if let ScriptScore(..) = &mut self.function
Setter_params ==
    Mutate(IF target.function.type = "ScriptScore"
           THEN [target EXCEPT !.function.params = Some(insert(Map_new, "a", Number(1)))]
           ELSE target,
           Call("params", "", 0))

\* ScoreFunction::to_json
Setter_to_json ==
    /\ json = None
    /\ json' = Some(ScoreFunction_to_json(target))
    /\ UNCHANGED <<target, calls, built>>

NextSetters ==
    \/ Setter_filter
    \/ Setter_weight
    \/ Setter_origin
    \/ Setter_offset
    \/ Setter_decay
    \/ Setter_factor
    \/ Setter_modifier
    \/ Setter_missing
    \/ Setter_seed
    \/ Setter_field
    \/ Setter_params
    \/ Setter_to_json

SpecSetters == InitSetters /\ [][NextSetters]_vars

\* The variants each variant-specific setter applies to, as the claim lists
\* them.
SetterVariants ==
    [origin |-> {"Gauss", "Exp", "Linear"}, offset |-> {"Gauss", "Exp", "Linear"},
     decay |-> {"Gauss", "Exp", "Linear"},
     factor |-> {"FieldValueFactor"}, modifier |-> {"FieldValueFactor"},
     missing |-> {"FieldValueFactor"},
     seed |-> {"RandomScore"}, field |-> {"RandomScore"},
     params |-> {"ScriptScore"}]

\* C29: a variant-specific setter on a function of another variant changes
\* nothing; on its own variant it changes only its field of the function;
\* filter and weight set their field on every variant. Filter and weight are
\* otherwise left unchanged.
C29_SettersByVariant ==
    [][CallStep =>
          LET op == calls'[Len(calls')].op
          IN  /\ op \in DOMAIN SetterVariants =>
                     /\ target.function.type \notin SetterVariants[op] => target' = target
                     /\ target.function.type \in SetterVariants[op] =>
                            /\ is_some(target'.function[op])
                            /\ \A f \in DOMAIN target.function \ {op} :
                                   target'.function[f] = target.function[f]
                     /\ DOMAIN target'.function = DOMAIN target.function
                     /\ target'.filter = target.filter
                     /\ target'.weight = target.weight
              /\ op = "filter" =>
                     /\ is_some(target'.filter)
                     /\ target'.function = target.function
                     /\ target'.weight = target.weight
              /\ op = "weight" =>
                     /\ target'.weight = Some(Floats[calls'[Len(calls')].arg])
                     /\ target'.function = target.function
                     /\ target'.filter = target.filter]_vars

\* decay() on a random_score function that had its seed set: the function is
\* as it was, with no decay and with its seed, and serializes so.
C29_Witness ==
    /\ Len(calls) = 2
    /\ calls[1].op = "seed"
    /\ calls[2].op = "decay"
    /\ target.function = [type |-> "RandomScore", seed |-> Some(Number(12345)),
                          field |-> None]
    /\ is_some(json)
    /\ Keys(Out) = {"random_score"}
    /\ Keys(Out.obj["random_score"]) = {"seed"}

\* C30: the "weight" a ScoreFunction emits is the value of its weight field,
\* never the payload of the Weight variant: weight_only(w) emits w and no type
\* key, weight_only(w).weight(x) emits x, and a Weight(w) function whose
\* weight field is unset emits no "weight" key.
C30_WeightFromField ==
    is_some(json) =>
        /\ ("weight" \in Keys(Out)) <=> is_some(target.weight)
        /\ is_some(target.weight) => Out.obj["weight"] = From_f64(unwrap(target.weight))
        /\ target.function.type = "Weight" =>
               /\ Keys(Out) \subseteq {"filter", "weight"}
               /\ "weight" \in Called =>
                      /\ "weight" \in Keys(Out)
                      /\ Out.obj["weight"] = From_f64(Floats[Last("weight").arg])
               /\ ("weight" \notin Called /\ target.function.value = Finite(20)) =>
                      /\ "weight" \in Keys(Out)
                      /\ Out.obj["weight"] = From_f64(Finite(20))
               /\ ("weight" \notin Called /\ target.function.value = Finite(7)) =>
                      "weight" \notin Keys(Out)

\* weight_only(2.0).weight(1.5), serialized: the only key is "weight", with
\* 1.5.
C30_Witness ==
    /\ target.function = [type |-> "Weight", value |-> Finite(20)]
    /\ calls = <<Call("weight", "", 1)>>
    /\ is_some(json)
    /\ Out = Object(insert(Map_new, "weight", From_f64(Finite(15))))

====
